---- MODULE Spec2Model ----
(***************************************************************************)
(* KenKen / Sudoku solver of kenken_solver: groups and their options       *)
(* (kk_group.rs), the block list (kk_block_list.rs, kk_black_list.rs) and   *)
(* the puzzle with its propagation round and its recursive solve           *)
(* (kk_puzzle.rs).                                                          *)
(*                                                                         *)
(* Rust vectors are 0-based, TLA+ sequences are 1-based: the element at     *)
(* Rust index i is element i+1 here.  The variables `index` and `ind_min`   *)
(* keep their Rust (0-based) values.                                        *)
(***************************************************************************)
EXTENDS Integers, Sequences, FiniteSets, TLC

\* Option<T>: None is the empty sequence, Some(x) the one-element sequence.
None == <<>>
Some(x) == <<x>>
IsSome(o) == o # <<>>
Unwrap(o) == o[1]

Range(s) == {s[i] : i \in 1..Len(s)}

RECURSIVE Pow(_, _)
Pow(b, e) == IF e = 0 THEN 1 ELSE b * Pow(b, e - 1)

\* A position encodes row * 10 + column.
RowOf(p) == p \div 10
ColOf(p) == p % 10

\* The field (solution) is a vector of 90 digits, 0 = not set.
FieldLen == 90
FieldIndex == 0..(FieldLen - 1)
EmptyField == [i \in FieldIndex |-> 0]

(***************************************************************************)
(* kk_group.rs                                                             *)
(***************************************************************************)

RECURSIVE SumSeq(_)
SumSeq(s) == IF s = <<>> THEN 0 ELSE s[1] + SumSeq(Tail(s))

RECURSIVE ProdSeq(_)
ProdSeq(s) == IF s = <<>> THEN 1 ELSE s[1] * ProdSeq(Tail(s))

Abs(x) == IF x < 0 THEN -x ELSE x

\* mutant: equal digits are looked for on one row only, not on one column
HasLineDuplicate_rows_only(positions, candidate) ==
    \E pi \in 1..Len(candidate), di \in 1..Len(candidate) :
        /\ pi < di
        /\ candidate[pi] = candidate[di]
        /\ RowOf(positions[pi]) = RowOf(positions[di])

\* The duplicate check of is_valid_option: some pair of indices with equal
\* digits lies on one row or on one column.
HasLineDuplicate(positions, candidate) ==
    \E pi \in 1..Len(candidate), di \in 1..Len(candidate) :
        /\ pi < di
        /\ candidate[pi] = candidate[di]
        /\ \/ RowOf(positions[pi]) = RowOf(positions[di])
           \/ ColOf(positions[pi]) = ColOf(positions[di])

\* mutant: the difference is taken without abs
CheckOperation_no_abs(operation, result, candidate) ==
    LET dimension == Len(candidate) IN
    CASE operation = "+" -> result = SumSeq(candidate)
      [] operation = "*" -> result = ProdSeq(candidate)
      [] operation = "-" -> dimension = 2 /\ result = candidate[2] - candidate[1]
      [] operation = ":" -> /\ dimension = 2
                            /\ \/ candidate[2] = result * candidate[1]
                               \/ candidate[1] = result * candidate[2]
      [] operation = "c" -> dimension = 1 /\ candidate[1] = result
      [] OTHER -> FALSE

\* mutant: a sum or a product below the result is taken too
CheckOperation_at_most(operation, result, candidate) ==
    LET dimension == Len(candidate) IN
    CASE operation = "+" -> result >= SumSeq(candidate)
      [] operation = "*" -> result >= ProdSeq(candidate)
      [] operation = "-" -> dimension = 2 /\ result = Abs(candidate[2] - candidate[1])
      [] operation = ":" -> /\ dimension = 2
                            /\ \/ candidate[2] = result * candidate[1]
                               \/ candidate[1] = result * candidate[2]
      [] operation = "c" -> dimension = 1 /\ candidate[1] = result
      [] OTHER -> FALSE

\* The numeric calculation of is_valid_option.
CheckOperation(operation, result, candidate) ==
    LET dimension == Len(candidate) IN
    CASE operation = "+" -> result = SumSeq(candidate)
      [] operation = "*" -> result = ProdSeq(candidate)
      [] operation = "-" -> dimension = 2 /\ result = Abs(candidate[2] - candidate[1])
      [] operation = ":" -> /\ dimension = 2
                            /\ \/ candidate[2] = result * candidate[1]
                               \/ candidate[1] = result * candidate[2]
      [] operation = "c" -> dimension = 1 /\ candidate[1] = result
      [] OTHER -> FALSE

is_valid_option(operation, result, positions, candidate) ==
    /\ ~HasLineDuplicate(positions, candidate)
    /\ CheckOperation(operation, result, candidate)

\* multi_cartesian_product of n ranges 1..=dimension: all tuples in
\* lexicographic order, the last index running fastest.
CartesianTuple(k, n, dimension) ==
    [i \in 1..n |-> ((k \div Pow(dimension, n - i)) % dimension) + 1]

\* mutant: the first index runs fastest
multi_cartesian_product_first_fastest(n, dimension) ==
    [k \in 1..Pow(dimension, n) |->
        [i \in 1..n |-> (((k - 1) \div Pow(dimension, i - 1)) % dimension) + 1]]

multi_cartesian_product(n, dimension) ==
    [k \in 1..Pow(dimension, n) |-> CartesianTuple(k - 1, n, dimension)]

is_one_dimensional(positions) ==
    \/ \A i \in 1..Len(positions) : RowOf(positions[1]) = RowOf(positions[i])
    \/ \A i \in 1..Len(positions) : ColOf(positions[1]) = ColOf(positions[i])

\* mutant: the group is returned without the test for an empty option list
new_kenken_unchecked(dimension, line) ==
    LET one_dim == is_one_dimensional(line.positions)
    IN  Some([result |-> line.result,
              operation |-> line.operation,
              positions |-> line.positions,
              options |-> SelectSeq(multi_cartesian_product(Len(line.positions), dimension),
                                    LAMBDA option : is_valid_option(line.operation,
                                                        line.result, line.positions, option)),
              is_one_dimensional |-> one_dim,
              is_already_in_black_list |-> ~one_dim])

\* Group::new_kenken on a parsed group line [result, operation, positions]:
\* Ok(group) is Some(group), Err is None.
new_kenken(dimension, line) ==
    LET one_dim == is_one_dimensional(line.positions)
        options == SelectSeq(multi_cartesian_product(Len(line.positions), dimension),
                             LAMBDA option : is_valid_option(line.operation, line.result,
                                                             line.positions, option))
    IN  IF Len(options) > 0
        THEN Some([result |-> line.result,
                   operation |-> line.operation,
                   positions |-> line.positions,
                   options |-> options,
                   is_one_dimensional |-> one_dim,
                   is_already_in_black_list |-> ~one_dim])
        ELSE None

\* permutohedron::heap_recursive as new_sudoku calls it: Heap's algorithm,
\* every permutation of xs pushed in the order it is produced.  Indices of
\* Swap are the Rust indices.
Swap(xs, i, j) == [xs EXCEPT ![i + 1] = xs[j + 1], ![j + 1] = xs[i + 1]]

RECURSIVE heap_unrolled(_, _)
RECURSIVE heap_loop(_, _, _, _)
\* Both return [out, xs]: the permutations pushed and the slice afterwards.
heap_unrolled(n, xs) ==
    IF n = 3
    THEN LET x1 == Swap(xs, 0, 1)
             x2 == Swap(x1, 0, 2)
             x3 == Swap(x2, 0, 1)
             x4 == Swap(x3, 0, 2)
             x5 == Swap(x4, 0, 1)
         IN  [out |-> <<xs, x1, x2, x3, x4, x5>>, xs |-> x5]
    ELSE heap_loop(n, xs, 0, <<>>)

heap_loop(n, xs, i, out) ==
    LET r == heap_unrolled(n - 1, xs) IN
    IF i < n - 1
    THEN LET j == IF n % 2 = 0 THEN i ELSE 0
         IN  heap_loop(n, Swap(r.xs, j, n - 1), i + 1, out \o r.out)
    ELSE [out |-> out \o r.out, xs |-> r.xs]

heap_recursive(xs) ==
    IF Len(xs) <= 1 THEN <<xs>>
    ELSE IF Len(xs) = 2 THEN <<xs, Swap(xs, 0, 1)>>
    ELSE heap_unrolled(Len(xs), xs).out

\* mutant: the group is created as not yet in the block list
new_sudoku_unlisted(positions, constants) ==
    Some([result |-> 0,
          operation |-> "s",
          positions |-> positions,
          options |-> heap_recursive(SelectSeq([d \in 1..9 |-> d],
                                               LAMBDA d : d \notin constants)),
          is_one_dimensional |-> FALSE,
          is_already_in_black_list |-> FALSE])

\* Group::new_sudoku: Ok(group) is Some(group), Err is None.
new_sudoku(positions, constants) ==
    LET data == SelectSeq([d \in 1..9 |-> d], LAMBDA d : d \notin constants)
        options == heap_recursive(data)
    IN  IF Len(options) > 0
        THEN Some([result |-> 0,
                   operation |-> "s",
                   positions |-> positions,
                   options |-> options,
                   is_one_dimensional |-> FALSE,
                   is_already_in_black_list |-> TRUE])
        ELSE None

\* mutant: only the digit of the first position is written
apply_option_to_field_first_only(group, field, option_index) ==
    [field EXCEPT ![group.positions[1]] = group.options[option_index + 1][1]]

\* Group::apply_option_to_field: zip of positions and the option's digits.
\* option_index is the Rust index.
\* mutant: the option is not written to the board
apply_option_to_field_not_written(group, field, option_index) == field

apply_option_to_field(group, field, option_index) ==
    LET option == group.options[option_index + 1]
        n == IF Len(option) < Len(group.positions) THEN Len(option)
             ELSE Len(group.positions)
        \* a later pair of the zip overwrites an earlier one on the same position
        last(p) == CHOOSE i \in 1..n :
                      /\ group.positions[i] = p
                      /\ \A j \in (i + 1)..n : group.positions[j] # p
    IN  [p \in FieldIndex |->
            IF \E i \in 1..n : group.positions[i] = p
            THEN option[last(p)]
            ELSE field[p]]

(***************************************************************************)
(* kk_block_list.rs (kk_black_list.rs is the same code under the older     *)
(* name).  The block list is a map from position to a set of digits; a     *)
(* position without entry is not in the domain.                            *)
(***************************************************************************)

NewBlockList == [p \in {} |-> {}]

get_position_block_list(block_list, position) ==
    IF position \in DOMAIN block_list THEN block_list[position] ELSE {}

\* mutant: the row of positions[0] is taken for a column group too
positions_to_update_row_always(positions) ==
    LET column == positions[1] % 10
        row == positions[1] - column
    IN  (row..(row + 8)) \ Range(positions)

\* The positions insert_position_block_list updates: the column of
\* positions[0] when positions[1] is in the same column, else its row;
\* without the given positions.  Reads positions[1].
positions_to_update(positions) ==
    LET column == positions[1] % 10
        row == positions[1] - column
        line == IF column = positions[2] % 10
                THEN {column + 10 * k : k \in 0..8}
                ELSE row..(row + 8)
    IN  line \ Range(positions)

\* mutant: the new digits replace the old entry instead of joining it
insert_position_block_list_overwrite(block_list, positions, digits) ==
    LET upd == positions_to_update(positions)
    IN  [p \in (DOMAIN block_list) \cup upd |->
            IF p \in upd THEN digits ELSE block_list[p]]

\* mutant: the given positions are updated with the rest of the line
insert_position_block_list_whole_line(block_list, positions, digits) ==
    LET upd == positions_to_update(positions) \cup Range(positions)
    IN  [p \in (DOMAIN block_list) \cup upd |->
            IF p \in upd
            THEN digits \cup get_position_block_list(block_list, p)
            ELSE block_list[p]]

insert_position_block_list(block_list, positions, digits) ==
    LET upd == positions_to_update(positions)
    IN  [p \in (DOMAIN block_list) \cup upd |->
            IF p \in upd
            THEN digits \cup get_position_block_list(block_list, p)
            ELSE block_list[p]]

\* The test of check_options_and_update_block_list: no option after the
\* first contains a digit that the first option does not contain.
\* mutant: only the second option is compared with the first
same_digits_second_only(options) ==
    LET check_digits == Range(options[1])
    IN  \A i \in 1..Len(options[2]) : options[2][i] \in check_digits

\* mutant: the options are taken to hold the same digits without a look
same_digits_untested(options) == Len(options) >= 1

same_digits(options) ==
    LET check_digits == Range(options[1])
    IN  ~ \E k \in 2..Len(options) :
            \E i \in 1..Len(options[k]) : options[k][i] \notin check_digits

\* mutant: the digits are inserted and the group is listed without the test
check_options_and_update_block_list_untested(block_list, positions, options) ==
    IF Len(positions) < 2
    THEN [block_list |-> block_list, listed |-> FALSE, panic |-> TRUE]
    ELSE [block_list |-> insert_position_block_list(block_list, positions,
                                                     Range(options[1])),
          listed |-> TRUE, panic |-> FALSE]

\* Returns [block_list, listed, panic]; panic is the out-of-bounds read of
\* positions[1] for a group of one position.
check_options_and_update_block_list(block_list, positions, options) ==
    IF same_digits(options)
    THEN IF Len(positions) < 2
         THEN [block_list |-> block_list, listed |-> FALSE, panic |-> TRUE]
         ELSE [block_list |-> insert_position_block_list(block_list, positions,
                                                          Range(options[1])),
               listed |-> TRUE, panic |-> FALSE]
    ELSE [block_list |-> block_list, listed |-> FALSE, panic |-> FALSE]

(***************************************************************************)
(* Group::get_updated_group                                                *)
(***************************************************************************)

\* The digits an option must not have at the position: the block list of
\* the position and the digits set in its row and in its column.
\* mutant: the digits set in the column are not collected
position_black_list_row_only(field, block_list, position) ==
    LET column == position % 10
        row == position - column
    IN  get_position_block_list(block_list, position)
          \cup {field[i] : i \in {j \in row..(row + 8) : field[j] > 0}}

position_black_list(field, block_list, position) ==
    LET column == position % 10
        row == position - column
    IN  get_position_block_list(block_list, position)
          \cup {field[i] : i \in {j \in row..(row + 8) : field[j] > 0}}
          \cup {field[i] : i \in {j \in {column + 10 * k : k \in 0..8} : field[j] > 0}}

\* mutant: the digits set on the board are not looked at
filter_options_exclusions_only(group, field, block_list) ==
    SelectSeq(group.options,
              LAMBDA option : \A index \in 1..Len(group.positions) :
                                  option[index] \notin get_position_block_list(
                                                           block_list, group.positions[index]))

\* mutant: only the first position of the group is looked at
filter_options_first_position_only(group, field, block_list) ==
    LET pbl == position_black_list(field, block_list, group.positions[1])
    IN  SelectSeq(group.options, LAMBDA option : option[1] \notin pbl)

filter_options(group, field, block_list) ==
    LET pbl == [index \in 1..Len(group.positions) |->
                   position_black_list(field, block_list, group.positions[index])]
    IN  SelectSeq(group.options,
                  LAMBDA option : \A index \in 1..Len(group.positions) :
                                      option[index] \notin pbl[index])

\* mutant: a single option left is counted as two
get_updated_group_one_as_two(group, field, block_list) ==
    LET new_options == filter_options(group, field, block_list)
    IN  [opt_cnt |-> IF Len(new_options) = 1 THEN 2 ELSE Len(new_options),
         group_pos |-> Len(group.positions),
         group |-> [group EXCEPT !.options = new_options],
         block_list |-> block_list,
         panic |-> FALSE]

\* Returns [opt_cnt, group_pos, group, block_list, panic].
get_updated_group(group, field, block_list) ==
    LET new_options == filter_options(group, field, block_list)
        chk == IF ~group.is_already_in_black_list /\ Len(new_options) > 1
               THEN check_options_and_update_block_list(block_list, group.positions,
                                                        new_options)
               ELSE [block_list |-> block_list,
                     listed |-> group.is_already_in_black_list,
                     panic |-> FALSE]
    IN  [opt_cnt |-> Len(new_options),
         group_pos |-> Len(group.positions),
         group |-> [group EXCEPT !.options = new_options,
                                 !.is_already_in_black_list = chk.listed],
         block_list |-> chk.block_list,
         panic |-> chk.panic]

(***************************************************************************)
(* kk_load.rs: PuzzleAsString::get_dimension on the parsed group lines.    *)
(* Ok(d) is Some(d), Err is None.                                          *)
(***************************************************************************)

RECURSIVE all_positions(_)
all_positions(lines) ==
    IF lines = <<>> THEN <<>>
    ELSE SelectSeq(lines[1].positions, LAMBDA p : p <= 88) \o all_positions(Tail(lines))

get_dimension(game_type, lines) ==
    IF game_type = "Sudoku" THEN Some(9) ELSE
    LET positions_list == all_positions(lines)
        positions_count == Len(positions_list)
        position_count_dedup == Cardinality(Range(positions_list))
        higher(p) == IF p \div 10 > p % 10 THEN p \div 10 ELSE p % 10
        dim == 1 + CHOOSE m \in {higher(p) : p \in Range(positions_list)} :
                      \A p \in Range(positions_list) : higher(p) <= m
    IN  IF /\ position_count_dedup = positions_count
           /\ positions_count >= 9
           /\ positions_count <= 81
           /\ positions_count = dim * dim
        THEN Some(dim)
        ELSE None

(***************************************************************************)
(* Puzzle descriptions the runs start from.                                *)
(***************************************************************************)

Line(result, operation, positions) ==
    [result |-> result, operation |-> operation, positions |-> positions]

\* kk_inputs.rs, the default 4x4 (newdoku.com nr. 7888719)
Default4 ==
    << Line(8, "+", <<0, 10, 11>>), Line(5, "+", <<1, 2>>),
       Line(8, "*", <<3, 13, 23>>), Line(6, "+", <<12, 22, 32>>),
       Line(2, ":", <<20, 21>>), Line(4, "*", <<30, 31>>),
       Line(3, "c", <<33>>) >>

\* main.rs, the example of the file format (KK-Dim4-1.txt of the tests)
KKDim4 ==
    << Line(1, "-", <<0, 1>>), Line(8, "+", <<2, 3, 12>>),
       Line(6, "*", <<10, 11, 20>>), Line(2, "-", <<13, 23>>),
       Line(16, "*", <<21, 30, 31>>), Line(6, "+", <<22, 32, 33>>) >>

\* a 5x5 on the cyclic square with the group 4-13.14, whose only options
\* are (1,5) and (5,1)
Cyclic5 ==
    << Line(3, "+", <<0, 1>>), Line(12, "+", <<2, 3, 4>>),
       Line(9, "+", <<10, 11, 12>>), Line(4, "-", <<13, 14>>),
       Line(1, "-", <<20, 30>>), Line(20, "*", <<21, 22>>),
       Line(2, ":", <<23, 24>>), Line(5, "*", <<31, 41>>),
       Line(6, "*", <<32, 33, 34>>), Line(5, "c", <<40>>),
       Line(9, "+", <<42, 43, 44>>) >>

\* 3x3 puzzles: a layout, a Latin square that gives each group its result
\* under a chosen operation, and a shift of the first group's result.
Layouts3 ==
    { << <<0, 1>>, <<2, 12>>, <<10, 11>>, <<20, 21>>, <<22>> >>,
      << <<0, 10, 11>>, <<1, 2>>, <<12, 22>>, <<20, 21>> >> }

Cells3 == {0, 1, 2, 10, 11, 12, 20, 21, 22}

\* the Latin squares of order 3 with digit 1 in the corner
LatinSquares3 ==
    {f \in [Cells3 -> 1..3] :
        /\ f[0] = 1
        /\ \A p, q \in Cells3 :
              (p # q /\ (RowOf(p) = RowOf(q) \/ ColOf(p) = ColOf(q))) => f[p] # f[q]}

OperationsFor(n) ==
    IF n = 1 THEN {"c"} ELSE IF n = 2 THEN {"+", "-", "*", ":"} ELSE {"+", "*"}

ResultOf(operation, digits) ==
    CASE operation = "+" -> SumSeq(digits)
      [] operation = "*" -> ProdSeq(digits)
      [] operation = "-" -> Abs(digits[2] - digits[1])
      [] operation = ":" -> IF digits[1] > digits[2] THEN digits[1] \div digits[2]
                            ELSE digits[2] \div digits[1]
      [] OTHER -> digits[1]

MaxShift == 1

Puzzles3 ==
    UNION { UNION { { [g \in 1..Len(layout) |->
                         Line(ResultOf(ops[g], [i \in 1..Len(layout[g]) |-> sq[layout[g][i]]])
                                + (IF g = 1 THEN shift ELSE 0),
                              ops[g], layout[g])] :
                       ops \in {o \in [1..Len(layout) -> {"+", "-", "*", ":", "c"}] :
                                  \A g \in 1..Len(layout) : o[g] \in OperationsFor(Len(layout[g]))},
                       shift \in 0..MaxShift } :
                    sq \in LatinSquares3 } :
            layout \in Layouts3 }

\* KKDim4 with a first group that no digits satisfy
KKDim4Bad == [KKDim4 EXCEPT ![1] = Line(50, "+", <<0, 1>>)]

\* a 3x3 with several solutions and a group off the lines
Diagonal3 ==
    << Line(1, "-", <<0, 11>>), Line(6, "*", <<1, 2, 12, 22>>),
       Line(6, "+", <<10, 20, 21>>) >>

Inputs == {Default4, KKDim4, KKDim4Bad, Cyclic5, Diagonal3} \cup Puzzles3

(***************************************************************************)
(* kk_puzzle.rs: the puzzle, one propagation round                         *)
(* (get_next_solution_step) and the recursive solve.                       *)
(***************************************************************************)

VARIABLES
    puzzle_string,  \* the parsed group lines of the puzzle file
    pc,             \* where the program is
    this,           \* the Puzzle under construction in new_from_puzzle_file
    stack,          \* the frames of solve, the innermost last
    caller,         \* who called get_next_solution_step: "init", "solve", "client"
    new_field,      \* get_next_solution_step: the copy without groups
    new_groups,     \* get_next_solution_step: the group list being scanned
    index,          \* get_next_solution_step: scan index
    ind_min,        \* get_next_solution_step: index of the best group
    min_opt,        \* get_next_solution_step: option count of the best group
    min_opt_pos,    \* get_next_solution_step: position count of the best group
    step_result,    \* the pair get_next_solution_step returned
    solve_result,   \* the Option<Puzzle> the last finished solve returned
    client_in,      \* the puzzle a client called get_next_solution_step on
    rechecks,       \* number of client calls made
    arg,            \* the argument of a directly called function
    ret,            \* what that function returned
    new_puzzle,     \* generate_kenken: the GeneratedPuzzle under construction
    gen_local       \* generate_kenken: the locals of add_groups and add_solution

scanVars == <<new_field, new_groups, index, ind_min, min_opt, min_opt_pos>>
vars == <<puzzle_string, pc, this, stack, caller, new_field, new_groups, index,
          ind_min, min_opt, min_opt_pos, step_result, solve_result, client_in,
          rechecks, arg, ret, new_puzzle, gen_local>>

MinOptInit == 1000
MinOptPosInit == 1

MaxRechecks == 2

\* mutant: the copy starts with a new block list
copy_without_groups_new_block_list(old_field) ==
    [dimension |-> old_field.dimension,
     solution |-> old_field.solution,
     block_list |-> NewBlockList,
     groups |-> <<>>]

\* Puzzle::copy_without_groups
copy_without_groups(old_field) ==
    [dimension |-> old_field.dimension,
     solution |-> old_field.solution,
     block_list |-> old_field.block_list,
     groups |-> <<>>]

\* The start of get_next_solution_step on puzzle p (lines 142-149).
EnterStep(p, who) ==
    /\ new_field' = copy_without_groups(p)
    /\ new_groups' = p.groups
    /\ index' = 0
    /\ ind_min' = 0
    /\ min_opt' = MinOptInit
    /\ min_opt_pos' = MinOptPosInit
    /\ caller' = who
    /\ pc' = "scan"

NoResult == [field |-> None, group |-> None]

Init ==
    /\ puzzle_string \in Inputs
    /\ pc = "new"
    /\ this = None
    /\ stack = <<>>
    /\ caller = "init"
    /\ new_field = None
    /\ new_groups = <<>>
    /\ index = 0
    /\ ind_min = 0
    /\ min_opt = MinOptInit
    /\ min_opt_pos = MinOptPosInit
    /\ step_result = NoResult
    /\ solve_result = None
    /\ client_in = None
    /\ rechecks = 0
    /\ arg = None
    /\ ret = None
    /\ new_puzzle = None
    /\ gen_local = None

\* The groups of initialize_kenken_from_definition: new_kenken per line.
initial_groups(dimension, lines) ==
    [g \in 1..Len(lines) |-> new_kenken(dimension, lines[g])]

\* Puzzle::new_from_puzzle_file up to the call of get_next_solution_step:
\* get_dimension, the groups; an Err of either is returned (the `?`).
NewFromPuzzleFile ==
    /\ pc = "new"
    /\ LET dim == get_dimension("KenKen", puzzle_string) IN
       IF ~IsSome(dim)
       THEN /\ pc' = "create_err"
            /\ UNCHANGED <<this, caller, scanVars>>
       ELSE LET groups == initial_groups(Unwrap(dim), puzzle_string) IN
            IF \E g \in 1..Len(groups) : ~IsSome(groups[g])
            THEN /\ pc' = "create_err"
                 /\ UNCHANGED <<this, caller, scanVars>>
            ELSE LET p == [dimension |-> Unwrap(dim),
                           solution |-> EmptyField,
                           block_list |-> NewBlockList,
                           groups |-> [g \in 1..Len(groups) |-> Unwrap(groups[g])]]
                 IN  /\ this' = Some(p)
                     /\ EnterStep(p, "init")
    /\ UNCHANGED <<puzzle_string, stack, step_result, solve_result, client_in, rechecks, arg, ret, new_puzzle, gen_local>>

RemoveAt(s, i) == [k \in 1..(Len(s) - 1) |-> IF k < i THEN s[k] ELSE s[k + 1]]
InsertAt(s, i, x) ==
    [k \in 1..(Len(s) + 1) |-> IF k < i THEN s[k] ELSE IF k = i THEN x ELSE s[k - 1]]

\* the test of a group with c >= 2 options against the best group so far
\* (lines 172-176)
track_minimum(best, c, group_pos, idx) ==
    IF c * best.min_opt_pos < best.min_opt * group_pos
    THEN [min_opt |-> c, min_opt_pos |-> group_pos, ind_min |-> idx]
    ELSE best

\* One iteration of the while loop of get_next_solution_step (lines 151-181).
ScanStep ==
    /\ pc = "scan"
    /\ index < Len(new_groups)
    /\ LET upd == get_updated_group(new_groups[index + 1], new_field.solution,
                                    new_field.block_list)
           removed == RemoveAt(new_groups, index + 1)
       IN  IF upd.panic
           THEN /\ pc' = "panic"
                /\ UNCHANGED <<scanVars, step_result>>
           ELSE IF upd.opt_cnt = 0
           THEN /\ pc' = "scan_ret"
                /\ step_result' = NoResult
                /\ new_field' = [new_field EXCEPT !.block_list = upd.block_list]
                /\ new_groups' = removed
                /\ UNCHANGED <<index, ind_min, min_opt, min_opt_pos>>
           ELSE IF upd.opt_cnt = 1
           THEN /\ new_field' = [new_field EXCEPT
                                   !.solution = apply_option_to_field(upd.group, @, 0),
                                   !.block_list = upd.block_list]
                /\ new_groups' = removed
                /\ min_opt' = MinOptInit
                /\ min_opt_pos' = MinOptPosInit
                /\ index' = 0
                /\ UNCHANGED <<ind_min, pc, step_result>>
           ELSE /\ new_field' = [new_field EXCEPT !.block_list = upd.block_list]
                /\ new_groups' = InsertAt(removed, index + 1, upd.group)
                /\ LET best == track_minimum([min_opt |-> min_opt,
                                               min_opt_pos |-> min_opt_pos,
                                               ind_min |-> ind_min],
                                              upd.opt_cnt, upd.group_pos, index)
                   IN  /\ min_opt' = best.min_opt
                       /\ min_opt_pos' = best.min_opt_pos
                       /\ ind_min' = best.ind_min
                /\ index' = index + 1
                /\ UNCHANGED <<pc, step_result>>
    /\ UNCHANGED <<puzzle_string, this, stack, caller, solve_result, client_in, rechecks, arg, ret, new_puzzle, gen_local>>

\* mutant: the branch group is returned and left in the list
ScanExit_branch_group_kept ==
    /\ pc = "scan"
    /\ index >= Len(new_groups)
    /\ IF Len(new_groups) > 0
       THEN IF ind_min >= Len(new_groups)
            THEN /\ pc' = "panic"
                 /\ UNCHANGED <<scanVars, step_result>>
            ELSE /\ step_result' =
                        [field |-> Some([new_field EXCEPT !.groups = new_groups]),
                         group |-> Some(new_groups[ind_min + 1])]
                 /\ pc' = "scan_ret"
                 /\ UNCHANGED scanVars
       ELSE /\ step_result' = [field |-> Some(new_field), group |-> None]
            /\ pc' = "scan_ret"
            /\ UNCHANGED scanVars
    /\ UNCHANGED <<puzzle_string, this, stack, caller, solve_result, client_in, rechecks,
                   arg, ret, new_puzzle, gen_local>>

\* The end of get_next_solution_step (lines 183-189); remove(ind_min)
\* panics when ind_min is no index of new_groups.
ScanExit ==
    /\ pc = "scan"
    /\ index >= Len(new_groups)
    /\ IF Len(new_groups) > 0
       THEN IF ind_min >= Len(new_groups)
            THEN /\ pc' = "panic"
                 /\ UNCHANGED <<scanVars, step_result>>
            ELSE /\ step_result' =
                        [field |-> Some([new_field EXCEPT
                                           !.groups = RemoveAt(new_groups, ind_min + 1)]),
                         group |-> Some(new_groups[ind_min + 1])]
                 /\ pc' = "scan_ret"
                 /\ UNCHANGED scanVars
       ELSE /\ step_result' = [field |-> Some(new_field), group |-> None]
            /\ pc' = "scan_ret"
            /\ UNCHANGED scanVars
    /\ UNCHANGED <<puzzle_string, this, stack, caller, solve_result, client_in, rechecks, arg, ret, new_puzzle, gen_local>>

\* mutant: the branch group is not pushed back to the groups of the puzzle
InitReturn_branch_group_dropped ==
    /\ pc = "scan_ret"
    /\ caller = "init"
    /\ IF IsSome(step_result.field)
       THEN IF IsSome(step_result.group)
            THEN /\ this' = Some(Unwrap(step_result.field))
                 /\ pc' = "created"
            ELSE /\ pc' = "panic"
                 /\ UNCHANGED this
       ELSE /\ pc' = "created"
            /\ UNCHANGED this
    /\ UNCHANGED <<puzzle_string, stack, caller, scanVars, step_result, solve_result,
                   client_in, rechecks, arg, ret, new_puzzle, gen_local>>

\* initialize_kenken_from_definition after the step (lines 121-128), then
\* Ok(new_puzzle); c.unwrap() panics when the step returned no group.
InitReturn ==
    /\ pc = "scan_ret"
    /\ caller = "init"
    /\ IF IsSome(step_result.field)
       THEN IF IsSome(step_result.group)
            THEN /\ this' = Some([Unwrap(step_result.field) EXCEPT
                                    !.groups = Append(@, Unwrap(step_result.group))])
                 /\ pc' = "created"
            ELSE /\ pc' = "panic"
                 /\ UNCHANGED this
       ELSE /\ pc' = "created"
            /\ UNCHANGED this
    /\ UNCHANGED <<puzzle_string, stack, caller, scanVars, step_result, solve_result,
                   client_in, rechecks, arg, ret, new_puzzle, gen_local>>

Frame(p) == [self |-> p, updated_field |-> None, next_group |-> None, option_index |-> 0]

\* lib.rs solve / main.rs solve_kernel: puzzle.solve() on the created puzzle;
\* solve starts with get_next_solution_step (line 208).
SolveCall ==
    /\ pc = "created"
    /\ stack' = <<Frame(Unwrap(this))>>
    /\ EnterStep(Unwrap(this), "solve")
    /\ UNCHANGED <<puzzle_string, this, step_result, solve_result, client_in, rechecks, arg, ret, new_puzzle, gen_local>>

\* solve after the step (lines 210-220).
SolveStep ==
    /\ pc = "scan_ret"
    /\ caller = "solve"
    /\ IF ~IsSome(step_result.group)
       THEN /\ solve_result' = step_result.field
            /\ pc' = "solve_ret"
            /\ UNCHANGED stack
       ELSE /\ stack' = [stack EXCEPT ![Len(stack)] =
                            [@ EXCEPT !.updated_field = step_result.field,
                                      !.next_group = step_result.group,
                                      !.option_index = 0]]
            /\ pc' = "solve_loop"
            /\ UNCHANGED solve_result
    /\ UNCHANGED <<puzzle_string, this, caller, scanVars, step_result, client_in, rechecks, arg, ret, new_puzzle, gen_local>>

\* mutant: the option is written to a new board, not to the board of p
set_option_for_group_on_new_board(p, group, option_index) ==
    [p EXCEPT !.solution = apply_option_to_field(group, EmptyField, option_index)]

\* mutant: the options are taken from the end of the list
set_option_for_group_from_last(p, group, option_index) ==
    [p EXCEPT !.solution =
        apply_option_to_field(group, @, Len(group.options) - 1 - option_index)]

\* Puzzle::set_option_for_group
set_option_for_group(p, group, option_index) ==
    [p EXCEPT !.solution = apply_option_to_field(group, @, option_index)]

\* One iteration of the for loop of solve (lines 222-224) up to the recursive
\* call, or the end of the loop (line 230).
SolveTry ==
    /\ pc = "solve_loop"
    /\ LET top == stack[Len(stack)]
           next_group == Unwrap(top.next_group)
       IN  IF top.option_index < Len(next_group.options)
           THEN LET next_field == set_option_for_group(Unwrap(top.updated_field),
                                                       next_group, top.option_index)
                IN  /\ stack' = Append(stack, Frame(next_field))
                    /\ EnterStep(next_field, "solve")
                    /\ UNCHANGED solve_result
           ELSE /\ solve_result' = None
                /\ pc' = "solve_ret"
                /\ UNCHANGED <<stack, caller, scanVars>>
    /\ UNCHANGED <<puzzle_string, this, step_result, client_in, rechecks, arg, ret, new_puzzle, gen_local>>

\* The innermost solve returns solve_result to its caller: the for loop of
\* the parent (lines 224-227) or the caller of the outermost solve.
SolveReturn ==
    /\ pc = "solve_ret"
    /\ LET rest == SubSeq(stack, 1, Len(stack) - 1) IN
       IF Len(stack) = 1
       THEN /\ pc' = "done"
            /\ stack' = rest
       ELSE IF IsSome(solve_result)
            THEN /\ pc' = "solve_ret"
                 /\ stack' = rest
            ELSE /\ pc' = "solve_loop"
                 /\ stack' = [rest EXCEPT ![Len(rest)].option_index = @ + 1]
    /\ UNCHANGED <<puzzle_string, this, caller, scanVars, step_result, solve_result,
                   client_in, rechecks, arg, ret, new_puzzle, gen_local>>

\* A client calls get_next_solution_step (a public method) on the puzzle
\* solve returned, and again on the puzzle that call returned.
Recheck ==
    /\ rechecks < MaxRechecks
    /\ \/ /\ pc = "done"
          /\ IsSome(solve_result)
          /\ client_in' = solve_result
          /\ EnterStep(Unwrap(solve_result), "client")
       \/ /\ pc = "scan_ret"
          /\ caller = "client"
          /\ IsSome(step_result.field)
          /\ client_in' = step_result.field
          /\ EnterStep(Unwrap(step_result.field), "client")
    /\ rechecks' = rechecks + 1
    /\ UNCHANGED <<puzzle_string, this, stack, step_result, solve_result, arg, ret, new_puzzle, gen_local>>

(***************************************************************************)
(* The group constructors called directly, as the tests of kk_group.rs     *)
(* call them.                                                              *)
(***************************************************************************)

MaxGroupDim == 5
MaxGroupResult == 16
MaxOpen == 4

GroupPositions ==
    { <<0>>, <<0, 1>>, <<0, 10>>, <<0, 11>>, <<20, 30>>, <<0, 1, 2>>, <<10, 11, 20>>,
      <<0, 1, 11>>, <<1, 11, 21>>, <<0, 1, 10, 11>> }

GroupArgs ==
    [dimension : 3..MaxGroupDim,
     line : [result : 0..MaxGroupResult,
             operation : {"c", "+", "-", "*", ":"},
             positions : GroupPositions]]

\* the open positions of the first 3x3 quadrant, in the order
\* initialize_sudoku_from_definition visits them
QuadrantPositions == <<0, 1, 2, 10, 11, 12, 20, 21, 22>>

SudokuArgs ==
    {[positions |-> SubSeq(QuadrantPositions, 1, 9 - Cardinality(c)), constants |-> c] :
        c \in {c \in SUBSET (1..9) : 9 - Cardinality(c) <= MaxOpen}}

InitDirect(args) ==
    /\ arg \in args
    /\ ret = None
    /\ pc = "call"
    /\ puzzle_string = <<>>
    /\ this = None
    /\ stack = <<>>
    /\ caller = "init"
    /\ new_field = None
    /\ new_groups = <<>>
    /\ index = 0
    /\ ind_min = 0
    /\ min_opt = MinOptInit
    /\ min_opt_pos = MinOptPosInit
    /\ step_result = NoResult
    /\ solve_result = None
    /\ client_in = None
    /\ rechecks = 0
    /\ new_puzzle = None
    /\ gen_local = None

NewKenkenCall ==
    /\ pc = "call"
    /\ ret' = new_kenken(arg.dimension, arg.line)
    /\ pc' = "returned"
    /\ UNCHANGED <<puzzle_string, this, stack, caller, scanVars, step_result,
                   solve_result, client_in, rechecks, arg, new_puzzle, gen_local>>

NewSudokuCall ==
    /\ pc = "call"
    /\ ret' = new_sudoku(arg.positions, arg.constants)
    /\ pc' = "returned"
    /\ UNCHANGED <<puzzle_string, this, stack, caller, scanVars, step_result,
                   solve_result, client_in, rechecks, arg, new_puzzle, gen_local>>

\* get_dimension called directly, as check_get_dimension calls it, on
\* descriptions that fill a square and on such descriptions with one
\* position changed, added or left out
MaxPosition == 99

ReplacePosition(lines, g, i, v) == [lines EXCEPT ![g].positions[i] = v]
AddPosition(lines, g, v) == [lines EXCEPT ![g].positions = Append(@, v)]
DropPosition(lines, g, i) == [lines EXCEPT ![g].positions = RemoveAt(@, i)]

LinesAround(lines) ==
    {lines}
      \cup {ReplacePosition(lines, g, i, v) :
               g \in 1..Len(lines), i \in 1..2, v \in 0..MaxPosition}
      \cup {AddPosition(lines, g, v) : g \in 1..Len(lines), v \in 0..MaxPosition}
      \cup {DropPosition(lines, g, i) : g \in 1..Len(lines), i \in 1..2}

DimensionArgs ==
    [game_type : {"KenKen", "Sudoku"},
     lines : LinesAround(Diagonal3) \cup LinesAround(KKDim4)]

GetDimensionCall ==
    /\ pc = "call"
    /\ ret' = get_dimension(arg.game_type, arg.lines)
    /\ pc' = "returned"
    /\ UNCHANGED <<puzzle_string, this, stack, caller, scanVars, step_result,
                   solve_result, client_in, rechecks, arg, new_puzzle, gen_local>>

InitDimension == InitDirect(DimensionArgs)
NextDimension == GetDimensionCall
SpecDimension == InitDimension /\ [][NextDimension]_vars

\* The choice of the branch group by get_next_solution_step on its own: a
\* pass of the while loop over groups that each keep two options or more,
\* given as the pairs (opt_cnt, group_pos) that get_updated_group returns
\* for them, and the end of the function.  The pairs are those of KenKen
\* groups of two and three positions and of the Sudoku groups of 6, 8 and 9
\* open positions of a quadrant on a board with no other digit set.
UpdatedCounts ==
    { [opt_cnt |-> 2, group_pos |-> 2], [opt_cnt |-> 6, group_pos |-> 3],
      [opt_cnt |-> 720, group_pos |-> 6], [opt_cnt |-> 40320, group_pos |-> 8],
      [opt_cnt |-> 362880, group_pos |-> 9] }

MaxPass == 3

PassArgs == UNION {[1..n -> UpdatedCounts] : n \in 1..MaxPass}

\* one iteration of the while loop for a group with two options or more
\* (lines 151-154 and 169-178)
PassStep ==
    /\ pc = "call"
    /\ index < Len(arg)
    /\ LET best == track_minimum([min_opt |-> min_opt, min_opt_pos |-> min_opt_pos,
                                  ind_min |-> ind_min],
                                 arg[index + 1].opt_cnt, arg[index + 1].group_pos, index)
       IN  /\ min_opt' = best.min_opt
           /\ min_opt_pos' = best.min_opt_pos
           /\ ind_min' = best.ind_min
    /\ index' = index + 1
    /\ UNCHANGED <<puzzle_string, pc, this, stack, caller, new_field, new_groups,
                   step_result, solve_result, client_in, rechecks, arg, ret,
                   new_puzzle, gen_local>>

\* the end of get_next_solution_step (lines 183-186): ret is the index of
\* the group that new_groups.remove(ind_min) takes out and returns
PassExit ==
    /\ pc = "call"
    /\ index >= Len(arg)
    /\ ret' = Some(ind_min)
    /\ pc' = "returned"
    /\ UNCHANGED <<puzzle_string, this, stack, caller, scanVars, step_result,
                   solve_result, client_in, rechecks, arg, new_puzzle, gen_local>>

InitPass == InitDirect(PassArgs)
NextPass == PassStep \/ PassExit
SpecPass == InitPass /\ [][NextPass]_vars

\* The block list on its own, as the tests of kk_black_list.rs use it: a new
\* block list, then insert_position_block_list for the groups of arg in
\* turn.  The groups lie on one row or one column and have two positions or
\* more; the digits are those of an option.
MaxInserts == 2

InsertPositions ==
    { <<0, 1>>, <<1, 0>>, <<0, 10>>, <<11, 21, 31>>, <<20, 21, 22>>, <<12, 2>> }

InsertDigits == { {1}, {1, 2}, {2, 3}, {1, 2, 3} }

InsertArgs ==
    UNION {[1..n -> [positions : InsertPositions, digits : InsertDigits]] :
              n \in 1..MaxInserts}

\* BlackList::new
BlockListNew ==
    /\ pc = "call"
    /\ ret' = Some(NewBlockList)
    /\ pc' = "inserting"
    /\ UNCHANGED <<puzzle_string, this, stack, caller, scanVars, step_result,
                   solve_result, client_in, rechecks, arg, new_puzzle, gen_local>>

\* the next insert_position_black_list of arg
InsertCall ==
    /\ pc = "inserting"
    /\ index < Len(arg)
    /\ ret' = Some(insert_position_block_list(Unwrap(ret), arg[index + 1].positions,
                                              arg[index + 1].digits))
    /\ index' = index + 1
    /\ UNCHANGED <<puzzle_string, pc, this, stack, caller, new_field, new_groups,
                   ind_min, min_opt, min_opt_pos, step_result, solve_result,
                   client_in, rechecks, arg, new_puzzle, gen_local>>

InitInsert == InitDirect(InsertArgs)
NextInsert == BlockListNew \/ InsertCall
SpecInsert == InitInsert /\ [][NextInsert]_vars

\* get_next_solution_step on groups given by what get_updated_group returns
\* for them: the number of positions and the option counts of successive
\* filters, the last count repeating.  A group is filtered again only after
\* a restart, that is after a collapsed group was written to the board.
\* The groups are those of a Sudoku whose last three rows are given but
\* for four cells: a quadrant of nine open positions (12096 options beside
\* a full quadrant), quadrants of two open positions (two options, which
\* stay, or fall to one or to none once a digit is written on their row)
\* and a quadrant of one open position; and a KenKen group of three
\* positions with six options.
RoundGroups ==
    { [group_pos |-> 9, counts |-> <<12096>>],
      [group_pos |-> 3, counts |-> <<6>>],
      [group_pos |-> 2, counts |-> <<2>>],
      [group_pos |-> 2, counts |-> <<2, 1>>],
      [group_pos |-> 2, counts |-> <<2, 0>>],
      [group_pos |-> 1, counts |-> <<1>>] }

MaxRound == 3

RoundArgs == UNION {[1..n -> RoundGroups] : n \in 1..MaxRound}

\* the locals of get_next_solution_step (lines 142-149)
RoundEnter ==
    /\ pc = "call"
    /\ new_groups' = arg
    /\ index' = 0
    /\ ind_min' = 0
    /\ min_opt' = MinOptInit
    /\ min_opt_pos' = MinOptPosInit
    /\ pc' = "round"
    /\ UNCHANGED <<puzzle_string, this, stack, caller, new_field, step_result,
                   solve_result, client_in, rechecks, arg, ret, new_puzzle, gen_local>>

\* one iteration of the while loop (lines 151-181); ret is None for
\* (None, None)
RoundStep ==
    /\ pc = "round"
    /\ index < Len(new_groups)
    /\ LET group == new_groups[index + 1]
           opt_cnt == Head(group.counts)
           valid_group == [group EXCEPT
                             !.counts = IF Len(@) > 1 THEN Tail(@) ELSE @]
           removed == RemoveAt(new_groups, index + 1)
       IN  IF opt_cnt = 0
           THEN /\ pc' = "returned"
                /\ ret' = None
                /\ new_groups' = removed
                /\ UNCHANGED <<index, ind_min, min_opt, min_opt_pos>>
           ELSE IF opt_cnt = 1
           THEN /\ new_groups' = removed
                /\ min_opt' = MinOptInit
                /\ min_opt_pos' = MinOptPosInit
                /\ index' = 0
                /\ UNCHANGED <<ind_min, pc, ret>>
           ELSE /\ new_groups' = InsertAt(removed, index + 1, valid_group)
                /\ LET best == track_minimum([min_opt |-> min_opt,
                                               min_opt_pos |-> min_opt_pos,
                                               ind_min |-> ind_min],
                                              opt_cnt, group.group_pos, index)
                   IN  /\ min_opt' = best.min_opt
                       /\ min_opt_pos' = best.min_opt_pos
                       /\ ind_min' = best.ind_min
                /\ index' = index + 1
                /\ UNCHANGED <<pc, ret>>
    /\ UNCHANGED <<puzzle_string, this, stack, caller, new_field, step_result,
                   solve_result, client_in, rechecks, arg, new_puzzle, gen_local>>

\* the end of get_next_solution_step (lines 183-189): ret is the index of
\* the branch group, None when no group is left; new_groups.remove(ind_min)
\* panics when ind_min is no index of new_groups
RoundExit ==
    /\ pc = "round"
    /\ index >= Len(new_groups)
    /\ IF Len(new_groups) > 0
       THEN IF ind_min >= Len(new_groups)
            THEN /\ pc' = "panic"
                 /\ UNCHANGED ret
            ELSE /\ ret' = Some(ind_min)
                 /\ pc' = "returned"
       ELSE /\ ret' = None
            /\ pc' = "returned"
    /\ UNCHANGED <<puzzle_string, this, stack, caller, scanVars, step_result,
                   solve_result, client_in, rechecks, arg, new_puzzle, gen_local>>

InitRound == InitDirect(RoundArgs)
NextRound == RoundEnter \/ RoundStep \/ RoundExit
SpecRound == InitRound /\ [][NextRound]_vars

\* new_kenken and then the first get_updated_group of the new group, as the
\* first pass of a round makes it: on the empty board or on a board with
\* one digit, with the new block list.
FilterBoards ==
    {EmptyField} \cup {[EmptyField EXCEPT ![p] = d] : p \in {2, 20}, d \in {1, 2}}

GetUpdatedGroupCall ==
    /\ pc = "returned"
    /\ IsSome(ret)
    /\ \E board \in FilterBoards :
          LET upd == get_updated_group(Unwrap(ret), board, NewBlockList)
          IN  /\ new_field' = Some([solution |-> board, block_list |-> upd.block_list])
              /\ new_groups' = <<upd.group>>
              /\ pc' = IF upd.panic THEN "panic" ELSE "updated"
    /\ UNCHANGED <<puzzle_string, this, stack, caller, index, ind_min, min_opt,
                   min_opt_pos, step_result, solve_result, client_in, rechecks, arg,
                   ret, new_puzzle, gen_local>>

InitFilter == InitDirect(GroupArgs)
NextFilter == NewKenkenCall \/ GetUpdatedGroupCall
SpecFilter == InitFilter /\ [][NextFilter]_vars

InitGroup == InitDirect(GroupArgs)
NextGroup == NewKenkenCall
SpecGroup == InitGroup /\ [][NextGroup]_vars

InitSudoku == InitDirect(SudokuArgs)
NextSudoku == NewSudokuCall
SpecSudoku == InitSudoku /\ [][NextSudoku]_vars

(***************************************************************************)
(* kk_generate.rs: generate_kenken = add_groups, add_solution,             *)
(* add_operations.  The random choices are choices of the steps.           *)
(***************************************************************************)

GenDimensions == {3}

\* easy and expert: groups of up to 3 and up to 4 positions
GenDifficulties == {0, 3}

GenArgs == [dimension : GenDimensions, difficulty : GenDifficulties, operation_range : 0..1]

MaxStride == 2

\* outcomes of random_index.shuffle: the orders 0, m, 2m, ... (mod n)
ShuffleOrders(n) ==
    {order \in {[k \in 1..n |-> ((k - 1) * m) % n] : m \in 1..MaxStride} :
        \A i, j \in 1..n : i # j => order[i] # order[j]}

\* the locals of add_groups after the 1x1 groups are set up (lines 86-99)
add_groups_locals(dim, order) ==
    [group_field |-> [position \in FieldIndex |->
                        IF position \in {10 * (id \div dim) + (id % dim) : id \in 0..(dim * dim - 1)}
                        THEN CHOOSE id \in 0..(dim * dim - 1) :
                                10 * (id \div dim) + (id % dim) = position
                        ELSE 0],
     groups |-> [id \in 1..(dim * dim) |-> <<10 * ((id - 1) \div dim) + ((id - 1) % dim)>>],
     random_index |-> order,
     k |-> 0,
     count_merged_fields |-> 0]

\* the while loop of add_groups (lines 113-135): the group to merge with
\* the group number index, looking up, down, left, right from direction on;
\* control = 4 when no neighbour is small enough
RECURSIVE find_index_to_merge(_, _, _, _, _, _)
find_index_to_merge(l, dim, difficulty, idx, direction, control) ==
    IF control >= 4 THEN [control |-> control, index_to_merge |-> 0]
    ELSE
    LET position == l.groups[idx + 1][1]
        turned ==
            IF direction < 2
            THEN LET d == IF direction = 0 /\ position \div 10 = 0 THEN 1 ELSE direction
                 IN  IF d = 1 /\ position \div 10 = dim - 1 THEN 0 ELSE d
            ELSE LET d == IF direction = 2 /\ position % 10 = 0 THEN 3 ELSE direction
                 IN  IF d = 3 /\ position % 10 = dim - 1 THEN 2 ELSE d
        index_to_merge ==
            IF direction < 2
            THEN l.group_field[position + turned * 20 - 10]
            ELSE l.group_field[position + turned * 2 - 5]
    IN  IF Len(l.groups[index_to_merge + 1]) <= 2 + difficulty \div 2
        THEN [control |-> control, index_to_merge |-> index_to_merge]
        ELSE find_index_to_merge(l, dim, difficulty, idx, (turned + 1) % 4, control + 1)

\* the merge of group index_to_merge into group idx (lines 136-149)
merge_groups(l, idx, index_to_merge) ==
    [l EXCEPT
       !.count_merged_fields = IF Len(l.groups[index_to_merge + 1]) = 1 THEN @ + 2 ELSE @ + 1,
       !.group_field = [position \in FieldIndex |->
                          IF position \in Range(l.groups[index_to_merge + 1])
                          THEN idx ELSE @[position]],
       !.groups = [@ EXCEPT ![idx + 1] = @ \o l.groups[index_to_merge + 1],
                            ![index_to_merge + 1] = <<>>]]

\* Vec<usize>::sort
RECURSIVE sort_positions(_)
sort_positions(s) ==
    IF s = <<>> THEN <<>>
    ELSE LET m == CHOOSE i \in 1..Len(s) : \A j \in 1..Len(s) : s[i] <= s[j]
         IN  <<s[m]>> \o sort_positions(RemoveAt(s, m))

\* the order of Vec<usize>: by the first element that differs, a prefix first
vec_le(a, b) ==
    \/ \E i \in 1..Len(a) :
          /\ i <= Len(b)
          /\ a[i] < b[i]
          /\ \A j \in 1..(i - 1) : a[j] = b[j]
    \/ /\ Len(a) <= Len(b)
       /\ \A j \in 1..Len(a) : a[j] = b[j]

\* Vec<Vec<usize>>::sort
RECURSIVE sort_groups(_)
sort_groups(s) ==
    IF s = <<>> THEN <<>>
    ELSE LET m == CHOOSE i \in 1..Len(s) : \A j \in 1..Len(s) : vec_le(s[i], s[j])
         IN  <<s[m]>> \o sort_groups(RemoveAt(s, m))

\* the end of add_groups (lines 153-159): the groups that are not empty,
\* each sorted, in sorted order
collect_groups(groups) ==
    sort_groups([g \in 1..Len(SelectSeq(groups, LAMBDA x : x # <<>>)) |->
                    sort_positions(SelectSeq(groups, LAMBDA x : x # <<>>)[g])])

\* the base field of add_solution (lines 185-195): row shift holds the
\* digits 1..dim shifted by shift
base_field_init(dim) ==
    [position \in FieldIndex |->
        IF position \div 10 < dim /\ position % 10 < dim
        THEN (((position % 10) + (position \div 10)) % dim) + 1
        ELSE 0]

\* mutant: only the first position of the two lines is swapped
swap_lines_first_only(base_field, direction, line1, line2) ==
    [base_field EXCEPT ![(11 - direction) * line1] = base_field[(11 - direction) * line2],
                       ![(11 - direction) * line2] = base_field[(11 - direction) * line1]]

\* one round of the loop of add_solution (lines 198-211): direction 1
\* swaps the rows line1 and line2, direction 10 the columns
swap_lines(base_field, direction, line1, line2) ==
    LET on_line(position, line) ==
            \E i \in 0..8 : position = direction * i + (11 - direction) * line
        from_1_to_2 == (11 - direction) * line2 - (11 - direction) * line1
    IN  [position \in FieldIndex |->
            IF on_line(position, line1) THEN base_field[position + from_1_to_2]
            ELSE IF on_line(position, line2) THEN base_field[position - from_1_to_2]
            ELSE base_field[position]]

\* the operation add_operations gives a group with the digits (lines 225-245)
choose_operation(digits, operations_range, ops_rand) ==
    IF Len(digits) = 1 THEN "c"
    ELSE IF operations_range = 1
    THEN IF Len(digits) = 2
         THEN IF digits[1] % digits[2] = 0 \/ digits[2] % digits[1] = 0
              THEN ":"
              ELSE IF ops_rand = 0 THEN "+" ELSE IF ops_rand = 1 THEN "*" ELSE "-"
         ELSE IF ops_rand >= 2 THEN "*" ELSE "+"
    ELSE "+"

\* the result add_operations gives (lines 249-266)
operation_result(operation, digits) ==
    CASE operation = "c" -> digits[1]
      [] operation = "*" -> ProdSeq(digits)
      [] operation = "-" -> IF digits[1] > digits[2] THEN digits[1] - digits[2]
                            ELSE digits[2] - digits[1]
      [] operation = ":" -> IF digits[1] > digits[2] THEN digits[1] \div digits[2]
                            ELSE digits[2] \div digits[1]
      [] OTHER -> SumSeq(digits)

MaxSwaps == 1

\* generate_kenken up to the loop of add_groups (lines 35-99)
GenerateKenken ==
    /\ pc = "call"
    /\ new_puzzle' = Some([dimension |-> arg.dimension,
                           difficulty |-> arg.difficulty,
                           operations_range |-> arg.operation_range,
                           solution |-> <<>>,
                           groups |-> <<>>,
                           operations |-> <<>>,
                           results |-> <<>>])
    /\ \E order \in ShuffleOrders(arg.dimension * arg.dimension) :
          gen_local' = Some(add_groups_locals(arg.dimension, order))
    /\ pc' = "add_groups"
    /\ UNCHANGED <<puzzle_string, this, stack, caller, scanVars, step_result,
                   solve_result, client_in, rechecks, arg, ret>>

\* one round of the for loop of add_groups (lines 106-151), or its end
\* (lines 153-159) and the base field of add_solution
AddGroups ==
    /\ pc = "add_groups"
    /\ LET l == Unwrap(gen_local)
           p == Unwrap(new_puzzle)
           dim == p.dimension
           max_merged_fields == (dim * dim * (91 + 3 * p.difficulty)) \div 100
       IN  IF l.k < Len(l.random_index)
           THEN LET idx == l.random_index[l.k + 1] IN
                /\ IF l.count_merged_fields < max_merged_fields /\ Len(l.groups[idx + 1]) = 1
                   THEN \E direction \in 0..3 :
                           LET found == find_index_to_merge(l, dim, p.difficulty, idx,
                                                            direction, 0)
                           IN  gen_local' =
                                  Some([(IF found.control < 4
                                         THEN merge_groups(l, idx, found.index_to_merge)
                                         ELSE l) EXCEPT !.k = @ + 1])
                   ELSE gen_local' = Some([l EXCEPT !.k = @ + 1])
                /\ UNCHANGED <<pc, new_puzzle>>
           ELSE /\ new_puzzle' = Some([p EXCEPT !.groups = collect_groups(l.groups)])
                /\ gen_local' = Some([base_field |-> base_field_init(dim), swaps |-> 0])
                /\ pc' = "add_solution"
    /\ UNCHANGED <<puzzle_string, this, stack, caller, scanVars, step_result,
                   solve_result, client_in, rechecks, arg, ret>>

\* one round of the loop of add_solution (lines 197-212), or its end
\* (line 214)
AddSolution ==
    /\ pc = "add_solution"
    /\ LET l == Unwrap(gen_local)
           dim == Unwrap(new_puzzle).dimension
       IN  IF l.swaps < MaxSwaps
           THEN /\ \E r \in 1..2, line1, line2 \in 0..(dim - 1) :
                      gen_local' = Some([base_field |-> swap_lines(l.base_field, 9 * r - 8,
                                                                   line1, line2),
                                         swaps |-> l.swaps + 1])
                /\ UNCHANGED <<pc, new_puzzle>>
           ELSE /\ new_puzzle' = Some([Unwrap(new_puzzle) EXCEPT !.solution = l.base_field])
                /\ pc' = "add_operations"
                /\ UNCHANGED gen_local
    /\ UNCHANGED <<puzzle_string, this, stack, caller, scanVars, step_result,
                   solve_result, client_in, rechecks, arg, ret>>

\* one round of the loop of add_operations (lines 220-269), or its end
AddOperations ==
    /\ pc = "add_operations"
    /\ LET p == Unwrap(new_puzzle) IN
       IF Len(p.operations) < Len(p.groups)
       THEN /\ \E ops_rand \in 0..3 :
                  LET group == p.groups[Len(p.operations) + 1]
                      digits == [i \in 1..Len(group) |-> p.solution[group[i]]]
                      operation == choose_operation(digits, p.operations_range, ops_rand)
                  IN  new_puzzle' =
                         Some([p EXCEPT !.operations = Append(@, operation),
                                        !.results = Append(@, operation_result(operation,
                                                                               digits))])
            /\ UNCHANGED pc
       ELSE /\ pc' = "generated"
            /\ UNCHANGED new_puzzle
    /\ UNCHANGED <<puzzle_string, this, stack, caller, scanVars, step_result,
                   solve_result, client_in, rechecks, arg, ret, gen_local>>

(***************************************************************************)
(* The raw string of a puzzle: a sequence of characters.  The description  *)
(* line and the game type are one element each; "\n" ends a line.          *)
(***************************************************************************)

DigitChars == <<"0", "1", "2", "3", "4", "5", "6", "7", "8", "9">>

\* usize::to_string
RECURSIVE to_string(_)
to_string(n) ==
    IF n < 10 THEN <<DigitChars[n + 1]>>
    ELSE to_string(n \div 10) \o <<DigitChars[(n % 10) + 1]>>

\* format!("{:02}", pos)
format_02(pos) == IF pos < 10 THEN <<"0">> \o to_string(pos) ELSE to_string(pos)

\* the positions of a group joined with "." (lines 61-64 and 70)
RECURSIVE position_string(_)
position_string(group) ==
    IF group = <<>> THEN <<>>
    ELSE IF Len(group) = 1 THEN format_02(group[1])
    ELSE format_02(group[1]) \o <<".">> \o position_string(Tail(group))

\* the lines of the groups, each ended by "\n" (lines 60-72)
RECURSIVE groups_string(_, _)
groups_string(p, group_index) ==
    IF group_index > Len(p.groups) THEN <<>>
    ELSE to_string(p.results[group_index]) \o <<p.operations[group_index]>>
           \o position_string(p.groups[group_index]) \o <<"\n">>
           \o groups_string(p, group_index + 1)

\* GeneratedPuzzle::to_raw_string
difficulty_names ==
    << <<"e", "a", "s", "y">>, <<"m", "e", "d", "i", "u", "m">>,
       <<"h", "a", "r", "d">>, <<"e", "x", "p", "e", "r", "t">> >>

operation_names ==
    << <<"w", "i", "t", "h", " ", "o", "n", "l", "y", " ", "a", "d", "d", "i", "t", "i", "o", "n">>,
       <<"w", "i", "t", "h", " ", "a", "l", "l", " ", "o", "p", "e", "r", "a", "t", "i", "o", "n", "s">> >>

to_raw_string(p) ==
    difficulty_names[p.difficulty + 1]
      \o <<" ", "K", "e", "n", "k", "e", "n", " ", "o", "f", " ", "d", "i", "m", "e", "n", "s", "i", "o", "n", " ">>
      \o to_string(p.dimension) \o <<" ", "x", " ">> \o to_string(p.dimension) \o <<" ">>
      \o operation_names[p.operations_range + 1]
      \o <<"\n">> \o <<"K", "e", "n", "K", "e", "n">> \o <<"\n">> \o groups_string(p, 1)

\* str::split: the pieces between the separators, an empty piece after a
\* separator at the end
RECURSIVE split(_, _)
split(str, separator) ==
    IF \E i \in 1..Len(str) : str[i] = separator
    THEN LET i == CHOOSE i \in 1..Len(str) :
                     str[i] = separator /\ \A j \in 1..(i - 1) : str[j] # separator
         IN  <<SubSeq(str, 1, i - 1)>> \o split(SubSeq(str, i + 1, Len(str)), separator)
    ELSE <<str>>

\* str::trim
RECURSIVE trim(_)
trim(str) ==
    IF str # <<>> /\ str[1] \in {" ", "\t", "\r"} THEN trim(Tail(str))
    ELSE IF str # <<>> /\ str[Len(str)] \in {" ", "\t", "\r"}
    THEN trim(SubSeq(str, 1, Len(str) - 1))
    ELSE str

\* PuzzleAsString::new_from_raw_string: Ok(file) is Some(file), Err is None;
\* remove(0) panics when there is no second line
new_from_raw_string(raw_puzzle_string) ==
    LET lines == [k \in 1..Len(split(raw_puzzle_string, "\n")) |->
                     trim(split(raw_puzzle_string, "\n")[k])]
    IN  IF Len(lines) < 2 THEN [panic |-> TRUE, file |-> None]
        ELSE IF lines[2] = <<"K", "e", "n", "K", "e", "n">>
        THEN [panic |-> FALSE,
              file |-> Some([game_type |-> "KenKen", description |-> lines[1],
                             puzzle_string |-> SubSeq(lines, 3, Len(lines))])]
        ELSE IF lines[2] = <<"S", "u", "d", "o", "k", "u">>
        THEN [panic |-> FALSE,
              file |-> Some([game_type |-> "Sudoku", description |-> lines[1],
                             puzzle_string |-> SubSeq(lines, 3, Len(lines))])]
        ELSE [panic |-> FALSE, file |-> None]

\* str::parse::<usize>: Ok(x) is Some(x), Err is None
RECURSIVE digits_value(_)
digits_value(str) ==
    IF str = <<>> THEN 0
    ELSE 10 * digits_value(SubSeq(str, 1, Len(str) - 1))
           + (CHOOSE d \in 0..9 : DigitChars[d + 1] = str[Len(str)])

parse_usize(str) ==
    IF str # <<>> /\ \A i \in 1..Len(str) : \E d \in 0..9 : DigitChars[d + 1] = str[i]
    THEN Some(digits_value(str))
    ELSE None

\* the replacement of a character in new_kenken (lines 109-116)
operation_id(c) ==
    CASE c = "c" -> <<".", "0", ".">>
      [] c = "+" -> <<".", "1", ".">>
      [] c = "-" -> <<".", "2", ".">>
      [] c = "*" -> <<".", "3", ".">>
      [] c = ":" -> <<".", "4", ".">>
      [] OTHER -> <<c>>

RECURSIVE map_operation_id(_)
map_operation_id(str) ==
    IF str = <<>> THEN <<>> ELSE operation_id(str[1]) \o map_operation_id(Tail(str))

\* the numbers new_kenken parses a line into (lines 106-125): the result,
\* the number of the operation, the positions; None for what is no number
parse_group_line(group_as_string) ==
    LET pieces == split(map_operation_id(group_as_string), ".")
    IN  [k \in 1..Len(pieces) |-> parse_usize(pieces[k])]

\* Group::new_kenken on the line as a string (lines 101-173): the numbers
\* must be three or more and all parsed; an operation number above 4 is an
\* index out of bounds
new_kenken_from_str(dimension, group_as_string) ==
    LET positions == parse_group_line(group_as_string) IN
    IF Len(positions) >= 3 /\ \A k \in 1..Len(positions) : IsSome(positions[k])
    THEN IF Unwrap(positions[2]) > 4
         THEN [panic |-> TRUE, group |-> None]
         ELSE [panic |-> FALSE,
               group |-> new_kenken(dimension,
                            Line(Unwrap(positions[1]),
                                 <<"c", "+", "-", "*", ":">>[Unwrap(positions[2]) + 1],
                                 [k \in 1..(Len(positions) - 2) |->
                                     Unwrap(positions[k + 2])]))]
    ELSE [panic |-> FALSE, group |-> None]

\* the replacement of a character in get_dimension (lines 71-74)
separated(c) == IF c \in {"+", "-", "*", ":", "c"} THEN <<"#", ".">> ELSE <<c>>

RECURSIVE map_separated(_)
map_separated(str) ==
    IF str = <<>> THEN <<>> ELSE separated(str[1]) \o map_separated(Tail(str))

\* the numbers get_dimension parses a line into (lines 63-82): 999 for what
\* is no number
dimension_numbers(line) ==
    LET pieces == split(map_separated(line), ".")
    IN  [k \in 1..Len(pieces) |->
            IF IsSome(parse_usize(pieces[k])) THEN Unwrap(parse_usize(pieces[k])) ELSE 999]

\* main.rs gen_solve (lines 181-186) with GenArgs::generate (lines 134-150):
\* the generated puzzle is written out with to_raw_string and dropped, and
\* the string is read with new_from_raw_string
GenSolve ==
    /\ pc = "generated"
    /\ ret' = new_from_raw_string(to_raw_string(Unwrap(new_puzzle)))
    /\ new_puzzle' = None
    /\ gen_local' = None
    /\ pc' = "loaded"
    /\ UNCHANGED <<puzzle_string, this, stack, caller, scanVars, step_result,
                   solve_result, client_in, rechecks, arg>>

\* main.rs solve_kernel up to the groups of the puzzle, called when the
\* string was read: new_from_puzzle_file with get_dimension and new_kenken
\* for every entry of puzzle_string
SolveKernel ==
    /\ pc = "loaded"
    /\ IsSome(ret.file)
    /\ LET file == Unwrap(ret.file)
           dim == get_dimension(file.game_type,
                                [k \in 1..Len(file.puzzle_string) |->
                                    [positions |-> dimension_numbers(file.puzzle_string[k])]])
       IN  ret' = [file |-> ret.file,
                   dimension |-> dim,
                   groups |-> IF IsSome(dim)
                              THEN [k \in 1..Len(file.puzzle_string) |->
                                      new_kenken_from_str(Unwrap(dim),
                                                          file.puzzle_string[k]).group]
                              ELSE <<>>]
    /\ pc' = "returned"
    /\ UNCHANGED <<puzzle_string, this, stack, caller, scanVars, step_result,
                   solve_result, client_in, rechecks, arg, new_puzzle, gen_local>>

InitGenerate == InitDirect(GenArgs)
NextGenerate == GenerateKenken \/ AddGroups \/ AddSolution \/ AddOperations \/ GenSolve \/ SolveKernel
SpecGenerate == InitGenerate /\ [][NextGenerate]_vars

Next ==
    \/ NewFromPuzzleFile
    \/ ScanStep
    \/ ScanExit
    \/ InitReturn
    \/ SolveCall
    \/ SolveStep
    \/ SolveTry
    \/ SolveReturn
    \/ Recheck

Spec == Init /\ [][Next]_vars

\* the steps of the running program: the scan of get_next_solution_step
\* and solve; a call that has begun runs on
Running == ScanStep \/ ScanExit \/ SolveStep \/ SolveTry \/ SolveReturn

\* the puzzles given by name and the 3x3 puzzles of products
LiveInputs ==
    {Default4, KKDim4, KKDim4Bad, Cyclic5, Diagonal3}
       \cup {p \in Puzzles3 : \A g \in 1..Len(p) : p[g].operation \in {"*", "c"}}

InitLive == Init /\ puzzle_string \in LiveInputs
SpecLive == InitLive /\ [][Next]_vars /\ WF_vars(Running)

(***************************************************************************)
(* What the properties are stated in: the rules of the puzzle, written     *)
(* from the puzzle description and not from the solver.                    *)
(***************************************************************************)

SameLine(p, q) == p \div 10 = q \div 10 \/ p % 10 = q % 10

\* the side length of a board that the positions of the lines fill
BoardDim(lines) ==
    LET count == Len(all_positions(lines))
    IN  CHOOSE d \in 1..9 : d * d = count

Cells(d) == {10 * r + c : r \in 0..(d - 1), c \in 0..(d - 1)}

RECURSIVE TupleSum(_, _)
TupleSum(t, n) == IF n = 0 THEN 0 ELSE t[n] + TupleSum(t, n - 1)

RECURSIVE TupleProduct(_, _)
TupleProduct(t, n) == IF n = 0 THEN 1 ELSE t[n] * TupleProduct(t, n - 1)

\* the tuple gives different digits to positions of the group on one line
NoClash(positions, t) ==
    \A i, j \in 1..Len(positions) :
        (i # j /\ SameLine(positions[i], positions[j])) => t[i] # t[j]

Arithmetic(line, t) ==
    LET n == Len(line.positions) IN
    \/ line.operation = "+" /\ line.result = TupleSum(t, n)
    \/ line.operation = "*" /\ line.result = TupleProduct(t, n)
    \/ /\ line.operation = "-"
       /\ n = 2
       /\ (line.result = t[2] - t[1] \/ line.result = t[1] - t[2])
    \/ /\ line.operation = ":"
       /\ n = 2
       /\ (t[2] = line.result * t[1] \/ t[1] = line.result * t[2])
    \/ line.operation = "c" /\ n = 1 /\ t[1] = line.result

\* the tuples over 1..d that the rules allow for the group of a line
Candidates(d, line) ==
    {t \in [1..Len(line.positions) -> 1..d] :
        NoClash(line.positions, t) /\ Arithmetic(line, t)}

TupleAt(board, positions) == [i \in 1..Len(positions) |-> board[positions[i]]]

IsSolution(lines, board) ==
    LET d == BoardDim(lines) IN
    /\ \A p \in Cells(d) : board[p] \in 1..d
    /\ \A p, q \in Cells(d) : (p # q /\ SameLine(p, q)) => board[p] # board[q]
    /\ \A g \in 1..Len(lines) :
          TupleAt(board, lines[g].positions) \in Candidates(d, lines[g])

\* some solution of the puzzle agrees with the board on every digit set
RECURSIVE HasCompletion(_, _, _)
HasCompletion(lines, rest, board) ==
    IF rest = <<>> THEN IsSolution(lines, board)
    ELSE LET line == rest[1]
             d == BoardDim(lines)
         IN  \E t \in Candidates(d, line) :
                /\ \A i \in 1..Len(line.positions) :
                      /\ board[line.positions[i]] \in {0, t[i]}
                      /\ \A q \in Cells(d) \ Range(line.positions) :
                            SameLine(q, line.positions[i]) => board[q] # t[i]
                /\ HasCompletion(lines, Tail(rest),
                                 [p \in FieldIndex |->
                                    IF \E i \in 1..Len(line.positions) : line.positions[i] = p
                                    THEN t[CHOOSE i \in 1..Len(line.positions) :
                                                line.positions[i] = p]
                                    ELSE board[p]])

Solvable(lines, board) == HasCompletion(lines, lines, board)

Stopped == pc \in {"done", "panic", "create_err"}

(***************************************************************************)
(* Properties                                                              *)
(***************************************************************************)

\* C1: a board that solve returns (from the outermost call or from a
\* recursive one) has a digit of 1..dimension at every grid position, no
\* digit twice in a row or column, and at each group's positions a tuple
\* that satisfies the group's operation and result.
C1_SolveSound ==
    (pc \in {"solve_ret", "done"} /\ IsSome(solve_result))
        => IsSolution(puzzle_string, Unwrap(solve_result).solution)

\* C1 witness: the outermost solve returned a board found below a branch.
C1_Witness ==
    /\ pc = "solve_ret"
    /\ Len(stack) = 1
    /\ IsSome(solve_result)
    /\ IsSome(stack[1].next_group)


\* C2: solve returns a board exactly when a solution of the puzzle agrees
\* with the digits set on the board it was called on, for the outermost
\* call and for every recursive call; None is returned only when no
\* solution is left.
C2_SolveComplete ==
    /\ pc = "solve_ret"
          => (IsSome(solve_result)
                <=> Solvable(puzzle_string, stack[Len(stack)].self.solution))
    /\ pc = "done" => (IsSome(solve_result) <=> Solvable(puzzle_string, EmptyField))

\* C2 witness: the outermost solve returns a board after an earlier option
\* of its branch group has failed.
C2_Witness ==
    /\ pc = "solve_ret"
    /\ Len(stack) = 1
    /\ IsSome(solve_result)
    /\ stack[1].option_index > 0

RowMajor(board, d) ==
    [k \in 1..(d * d) |-> board[10 * ((k - 1) \div d) + ((k - 1) % d)]]

Digits2341 == <<2, 3, 4, 1, 1, 2, 3, 4, 3, 4, 1, 2, 4, 1, 2, 3>>

ReturnsDigits2341 ==
    /\ pc = "done"
    /\ IsSome(solve_result)
    /\ RowMajor(Unwrap(solve_result).solution, 4) = Digits2341

\* C3 as stated: for the default 4x4 of kk_inputs.rs (8+00.10.11 ...) the
\* program ends with solve returning 2341123434124123.
C3_DefaultReturns2341 == (puzzle_string = Default4 /\ Stopped) => ReturnsDigits2341

\* C3 amended: for the 4x4 of KK-Dim4-1 (1-00.01 / 8+02.03.12 / 6*10.11.20 /
\* 2-13.23 / 16*21.30.31 / 6+22.32.33) the program ends with solve returning
\* 2341123434124123.
C3_KKDim4Returns2341 == (puzzle_string = KKDim4 /\ Stopped) => ReturnsDigits2341

\* C3 witness: the run on KK-Dim4-1 has ended.
C3_Witness == puzzle_string = KKDim4 /\ Stopped

Unsatisfiable(lines) ==
    \E g \in 1..Len(lines) : Candidates(BoardDim(lines), lines[g]) = {}

\* C4: a puzzle with a group that no digit tuple satisfies ends in the error
\* of creation and no solve is entered for it; creation returns the error
\* only for such a puzzle.
C4_UnsatisfiableFailsCreation ==
    /\ Unsatisfiable(puzzle_string) => (pc \in {"new", "create_err"} /\ stack = <<>>)
    /\ pc = "create_err" => Unsatisfiable(puzzle_string)

\* C4 witness: creation of the 4x4 with the group 50+00.01 returned the error.
C4_Witness == puzzle_string = KKDim4Bad /\ pc = "create_err"

\* every group the state holds: in the puzzle under construction, in the
\* scan, in the frames of solve (the held-out branch groups included) and in
\* the values returned or passed
GroupsOf(o) == IF IsSome(o) THEN Range(Unwrap(o).groups) ELSE {}

AllGroups ==
    GroupsOf(this) \cup Range(new_groups)
      \cup UNION {GroupsOf(Some(stack[k].self)) \cup GroupsOf(stack[k].updated_field)
                    \cup Range(stack[k].next_group) : k \in 1..Len(stack)}
      \cup GroupsOf(step_result.field) \cup Range(step_result.group)
      \cup GroupsOf(solve_result) \cup GroupsOf(client_in)

LexLess(a, b) ==
    \E i \in 1..Len(a) : a[i] < b[i] /\ \A j \in 1..(i - 1) : a[j] = b[j]

ValidGroup(g, d) ==
    /\ \A k \in 1..Len(g.options) :
          /\ Len(g.options[k]) = Len(g.positions)
          /\ g.options[k] \in Candidates(d, Line(g.result, g.operation, g.positions))
    /\ \A k \in 1..(Len(g.options) - 1) : LexLess(g.options[k], g.options[k + 1])

AllGroupsValid ==
    pc # "new" => \A g \in AllGroups : ValidGroup(g, BoardDim(puzzle_string))

IsSubSeq(a, b) ==
    /\ Range(a) \subseteq Range(b)
    /\ \A i, j \in 1..Len(a) :
          i < j => (CHOOSE k \in 1..Len(b) : b[k] = a[i]) < (CHOOSE k \in 1..Len(b) : b[k] = a[j])

\* a step of the scan leaves every group of the list as it was or with
\* some of its options taken out, and adds no group
FilterOnlyRemoves ==
    (pc = "scan" /\ pc' \in {"scan", "scan_ret"})
        => \A k \in 1..Len(new_groups') :
              \E m \in 1..Len(new_groups) :
                 /\ new_groups'[k].positions = new_groups[m].positions
                 /\ new_groups'[k].operation = new_groups[m].operation
                 /\ new_groups'[k].result = new_groups[m].result
                 /\ IsSubSeq(new_groups'[k].options, new_groups[m].options)

\* C5: in every state, every option of every group (the branch groups held
\* in the frames of solve included) has one digit per position, gives
\* different digits to positions of the group on one row or column and
\* satisfies the group's operation and result; the options stay in the order
\* of creation, and a step of the scan only takes options out.
C5_CandidatesValid == []AllGroupsValid /\ [][FilterOnlyRemoves]_vars

\* C5 witness: a scan holds a group that has lost options since creation.
C5_Witness ==
    /\ pc = "scan"
    /\ \E g \in Range(new_groups) :
          /\ Len(g.options) >= 2
          /\ Len(g.options)
                < Cardinality(Candidates(BoardDim(puzzle_string),
                                         Line(g.result, g.operation, g.positions)))

\* the digits excluded at a position
Excluded(block_list, p) == IF p \in DOMAIN block_list THEN block_list[p] ELSE {}

ExcludesAtLeast(later, earlier) ==
    \A p \in FieldIndex \cup DOMAIN earlier : Excluded(earlier, p) \subseteq Excluded(later, p)

\* the puzzle the running or just finished get_next_solution_step was called on
StepInput ==
    CASE caller = "init" -> Unwrap(this)
      [] caller = "solve" -> stack[Len(stack)].self
      [] OTHER -> Unwrap(client_in)

\* along the frames of solve, outermost first, and into the running step
\* the exclusions only grow
ExclusionChain ==
    /\ \A k \in 1..Len(stack) :
          /\ IsSome(stack[k].updated_field)
                => ExcludesAtLeast(Unwrap(stack[k].updated_field).block_list,
                                   stack[k].self.block_list)
          /\ k < Len(stack)
                => /\ ExcludesAtLeast(stack[k + 1].self.block_list, stack[k].self.block_list)
                   /\ ExcludesAtLeast(stack[k + 1].self.block_list,
                                      Unwrap(stack[k].updated_field).block_list)
    /\ (pc = "scan" /\ caller = "solve")
          => ExcludesAtLeast(new_field.block_list, StepInput.block_list)
    /\ (pc = "scan_ret" /\ caller = "solve" /\ IsSome(step_result.field))
          => ExcludesAtLeast(Unwrap(step_result.field).block_list, StepInput.block_list)
    /\ (pc = "solve_ret" /\ IsSome(solve_result))
          => ExcludesAtLeast(Unwrap(solve_result).block_list,
                             stack[Len(stack)].self.block_list)

\* a step of the scan takes no digit out of any exclusion set
ScanKeepsExclusions ==
    (pc = "scan" /\ pc' \in {"scan", "scan_ret"})
        => ExcludesAtLeast(new_field'.block_list, new_field.block_list)

\* C6: within one solve attempt the exclusion set of every position only
\* grows: from step to step of a propagation round, from the state a solve
\* was called on to the state its round returns, and from there into every
\* branch trial below.
C6_ExclusionsGrow == []ExclusionChain /\ [][ScanKeepsExclusions]_vars

\* C6 witness: a round below a branch trial, begun with exclusions from the
\* rounds above it, has added a digit.
C6_Witness ==
    /\ pc = "scan"
    /\ caller = "solve"
    /\ Len(stack) >= 2
    /\ \E p \in DOMAIN StepInput.block_list : StepInput.block_list[p] # {}
    /\ \E p \in FieldIndex :
          Excluded(new_field.block_list, p) # Excluded(StepInput.block_list, p)

\* two options of two digits, one the other reversed
SwapPair(options) ==
    /\ Len(options) = 2
    /\ Len(options[1]) = 2
    /\ options[1][1] # options[1][2]
    /\ options[2] = <<options[1][2], options[1][1]>>

\* the positions of the 9x9 address space on the row of a row group, or on
\* the column of a column group, that are not positions of the group
OtherOnLine(positions) ==
    {q \in Cells(9) \ Range(positions) :
        IF positions[1] % 10 = positions[2] % 10
        THEN q % 10 = positions[1] % 10
        ELSE q \div 10 = positions[1] \div 10}

\* the scan step that leaves a not yet recorded two-position line group with
\* a swap pair adds the two digits on the rest of the line and nowhere else
LineExclusionStep ==
    (/\ pc = "scan" /\ pc' = "scan"
     /\ index < Len(new_groups) /\ index' = index + 1
     /\ Len(new_groups[index + 1].positions) = 2
     /\ new_groups[index + 1].is_one_dimensional
     /\ ~new_groups[index + 1].is_already_in_black_list
     /\ SwapPair(new_groups'[index + 1].options))
        => LET g == new_groups'[index + 1]
               digits == Range(g.options[1])
               line == OtherOnLine(g.positions)
           IN  /\ g.is_already_in_black_list
               /\ \A p \in line :
                     Excluded(new_field'.block_list, p)
                        = Excluded(new_field.block_list, p) \cup digits
               /\ \A q \in (FieldIndex \cup DOMAIN new_field'.block_list) \ line :
                     Excluded(new_field'.block_list, q) = Excluded(new_field.block_list, q)

\* the groups a finished round hands back: the list and the branch group
ReturnedGroups ==
    IF pc = "scan_ret" /\ IsSome(step_result.field)
    THEN GroupsOf(step_result.field) \cup Range(step_result.group)
    ELSE {}

LineExclusionAtReturn ==
    \A g \in ReturnedGroups :
        (Len(g.positions) = 2 /\ g.is_one_dimensional /\ SwapPair(g.options))
            => \A p \in OtherOnLine(g.positions) :
                  Range(g.options[1]) \subseteq Excluded(Unwrap(step_result.field).block_list, p)

\* C7: when a two-position line group that is not yet recorded is left with
\* two options (a,b) and (b,a), (1,5) and (5,1) among them, the scan step
\* adds a and b to the exclusions of every other position of its row (or
\* column) and changes the exclusions of no other position, the group's own
\* two included; the round returns with a and b excluded on that line.
C7_LineExclusion == []LineExclusionAtReturn /\ [][LineExclusionStep]_vars

\* C7 witness: a round returns a line group with the options (1,5), (5,1),
\* with 1 and 5 excluded on the rest of its line.
C7_Witness ==
    \E g \in ReturnedGroups :
        /\ g.options = << <<1, 5>>, <<5, 1>> >>
        /\ g.is_one_dimensional
        /\ \A p \in OtherOnLine(g.positions) :
              {1, 5} \subseteq Excluded(Unwrap(step_result.field).block_list, p)

\* C8: get_next_solution_step called on a puzzle with an empty group list
\* returns a puzzle with the same board and the same exclusions and no
\* branch group; called again on what it returned, it returns the same.
C8_StepOnSolvedBoard ==
    (pc = "scan_ret" /\ StepInput.groups = <<>>)
        => /\ step_result.group = None
           /\ IsSome(step_result.field)
           /\ Unwrap(step_result.field).solution = StepInput.solution
           /\ Unwrap(step_result.field).block_list = StepInput.block_list
           /\ Unwrap(step_result.field).groups = <<>>
           /\ caller = "client" => step_result.field = client_in

\* C8 witness: the second call of a client on a solved board that carries
\* exclusions has returned.
C8_Witness ==
    /\ pc = "scan_ret"
    /\ caller = "client"
    /\ rechecks = 2
    /\ StepInput.groups = <<>>
    /\ DOMAIN StepInput.block_list # {}

\* C9: new_kenken returns the error when the rules allow no tuple, and
\* else a group whose option list holds exactly the tuples over
\* 1..dimension that the rules allow (different digits only where two
\* positions share a row or a column; sum, product, difference, quotient
\* or constant as the operation says), each once, in lexicographic order.
C9_NewKenkenOptions ==
    pc = "returned"
        => LET expected == Candidates(arg.dimension, arg.line)
           IN  IF expected = {}
               THEN ret = None
               ELSE /\ IsSome(ret)
                    /\ Range(Unwrap(ret).options) = expected
                    /\ Len(Unwrap(ret).options) = Cardinality(expected)
                    /\ \A k \in 1..(Len(Unwrap(ret).options) - 1) :
                          LexLess(Unwrap(ret).options[k], Unwrap(ret).options[k + 1])

\* C9 witness: a group was returned with an option that has one digit at
\* two positions, which share neither row nor column.
C9_Witness ==
    /\ pc = "returned"
    /\ IsSome(ret)
    /\ \E k \in 1..Len(Unwrap(ret).options) :
          \E i, j \in 1..Len(arg.line.positions) :
             /\ i < j
             /\ Unwrap(ret).options[k][i] = Unwrap(ret).options[k][j]
             /\ ~SameLine(arg.line.positions[i], arg.line.positions[j])

\* the orders of the digits 1..9 that are not among the constants
DigitOrders(constants) ==
    LET digits == (1..9) \ constants
        n == Cardinality(digits)
    IN  {t \in [1..n -> digits] : \A i, j \in 1..n : i # j => t[i] # t[j]}

\* C10: new_sudoku returns a group on the given positions whose option list
\* holds every order of the digits of 1..9 that are not constants, each once
\* and nothing else; an option puts its i-th digit on the i-th position; the
\* group is not line-aligned and counts as recorded, and filtering it adds
\* nothing to the exclusions.
C10_NewSudokuOptions ==
    pc = "returned"
        => /\ IsSome(ret)
           /\ LET g == Unwrap(ret)
                  upd == get_updated_group(g, EmptyField, NewBlockList)
              IN  /\ Range(g.options) = DigitOrders(arg.constants)
                  /\ Len(g.options) = Cardinality(DigitOrders(arg.constants))
                  /\ g.positions = arg.positions
                  /\ \A k \in 1..Len(g.options) : \A i \in 1..Len(g.positions) :
                        apply_option_to_field(g, EmptyField, k - 1)[g.positions[i]]
                           = g.options[k][i]
                  /\ ~g.is_one_dimensional
                  /\ g.is_already_in_black_list
                  /\ upd.opt_cnt = Len(g.options)
                  /\ upd.block_list = NewBlockList
                  /\ upd.group.is_already_in_black_list

\* C10 witness: a group for four open positions was returned, with 24 options.
C10_Witness ==
    /\ pc = "returned"
    /\ IsSome(ret)
    /\ Len(arg.positions) = 4
    /\ Len(Unwrap(ret).options) = 24

\* a step of get_next_solution_step leaves the puzzle it was called on as
\* it is: board, exclusions and group list
StepKeepsInput == pc = "scan" => StepInput' = StepInput

\* no step changes what a frame of solve that stays on the stack holds:
\* the puzzle it was called on and, once its round has returned, the state
\* after the round and the branch group
FramesKept ==
    \A k \in 1..Len(stack) :
       k <= Len(stack')
          => /\ stack'[k].self = stack[k].self
             /\ IsSome(stack[k].updated_field)
                   => /\ stack'[k].updated_field = stack[k].updated_field
                      /\ stack'[k].next_group = stack[k].next_group

\* every trial below a frame runs on the frame's state after its round,
\* changed only at the positions of the branch group, which hold the
\* trial's option
TrialsStartFromUpdatedField ==
    \A k \in 1..(Len(stack) - 1) :
       LET updated_field == Unwrap(stack[k].updated_field)
           next_group == Unwrap(stack[k].next_group)
           option == next_group.options[stack[k].option_index + 1]
           trial == stack[k + 1].self
       IN  /\ trial.block_list = updated_field.block_list
           /\ trial.groups = updated_field.groups
           /\ \A q \in FieldIndex :
                 q \notin Range(next_group.positions)
                    => trial.solution[q] = updated_field.solution[q]
           /\ \A i \in 1..Len(next_group.positions) :
                 /\ updated_field.solution[next_group.positions[i]] = 0
                 /\ trial.solution[next_group.positions[i]] = option[i]

\* C11: get_next_solution_step changes nothing of the puzzle it is called
\* on; what a suspended frame of solve holds is changed by no trial below
\* it; and each trial of a branch group starts from the same board,
\* exclusions and group list, with only the trial's option written.
C11_CallerStateKept ==
    /\ []TrialsStartFromUpdatedField
    /\ [][StepKeepsInput /\ FramesKept]_vars

\* C11 witness: a later trial of a branch group runs its round, after an
\* earlier trial of that group failed, and the round has written to its
\* copy of the board.
C11_Witness ==
    /\ pc = "scan"
    /\ caller = "solve"
    /\ Len(stack) >= 2
    /\ stack[Len(stack) - 1].option_index > 0
    /\ new_field.solution # StepInput.solution

\* the digits an option may not put on position p: those excluded at p and
\* those on the board in the row or in the column of p
Blocked(board, block_list, p) ==
    Excluded(block_list, p)
       \cup {board[q] : q \in {r \in FieldIndex : SameLine(p, r) /\ board[r] > 0}}

\* the option puts no blocked digit on any position
Passes(option, positions, board, block_list) ==
    \A i \in 1..Len(positions) : option[i] \notin Blocked(board, block_list, positions[i])

\* the group the scan filters next has no option left on the scan's board
\* and exclusions
ScannedGroupIsEmpty ==
    /\ index < Len(new_groups)
    /\ \A k \in 1..Len(new_groups[index + 1].options) :
          ~Passes(new_groups[index + 1].options[k], new_groups[index + 1].positions,
                  new_field.solution, new_field.block_list)

\* a step of the scan returns no state and no group exactly when the group
\* it filtered has no option left
ContradictionIffEmptyGroup ==
    pc = "scan"
       => /\ ScannedGroupIsEmpty <=> (pc' = "scan_ret" /\ step_result' = NoResult)
          /\ step_result'.field = None => step_result'.group = None

\* solve returns None for the state whose round returned the contradiction,
\* and the frame above goes on with its next option
ContradictionAnswered ==
    /\ (pc = "scan_ret" /\ caller = "solve" /\ step_result = NoResult)
          => (pc' = "solve_ret" /\ solve_result' = None /\ stack' = stack)
    /\ (pc = "solve_ret" /\ solve_result = None /\ Len(stack) >= 2)
          => /\ pc' = "solve_loop"
             /\ Len(stack') = Len(stack) - 1
             /\ stack'[Len(stack')].option_index = stack[Len(stack) - 1].option_index + 1

\* C12: get_next_solution_step returns the contradiction (no state, no
\* group) exactly when a group it filters is left without options; solve
\* returns None for that state and its parent frame continues with the next
\* option of the branch group.
C12_Contradiction == [][ContradictionIffEmptyGroup /\ ContradictionAnswered]_vars

\* C12 witness: the round of a branch trial has returned the contradiction.
C12_Witness ==
    /\ pc = "scan_ret"
    /\ caller = "solve"
    /\ Len(stack) >= 2
    /\ step_result = NoResult

\* the board of the trial of option number j (from 0) of the branch group
\* of a frame
TrialBoard(frame, j) ==
    [q \in FieldIndex |->
        IF \E i \in 1..Len(Unwrap(frame.next_group).positions) :
              Unwrap(frame.next_group).positions[i] = q
        THEN Unwrap(frame.next_group).options[j + 1]
                [CHOOSE i \in 1..Len(Unwrap(frame.next_group).positions) :
                    Unwrap(frame.next_group).positions[i] = q]
        ELSE Unwrap(frame.updated_field).solution[q]]

\* the trials of a frame start with option 0 and go on one by one, and only
\* after the trial below has returned None; a board returned from below is
\* passed on at once
TrialsInOrder ==
    /\ (pc = "scan_ret" /\ pc' = "solve_loop") => stack'[Len(stack')].option_index = 0
    /\ \A k \in 1..Len(stack) :
          (k <= Len(stack') /\ IsSome(stack[k].next_group))
             => \/ stack'[k].option_index = stack[k].option_index
                \/ /\ stack'[k].option_index = stack[k].option_index + 1
                   /\ pc = "solve_ret"
                   /\ solve_result = None
                   /\ k = Len(stack) - 1
    /\ (pc = "solve_ret" /\ IsSome(solve_result))
          => /\ solve_result' = solve_result
             /\ pc' \in {"solve_ret", "done"}
             /\ Len(stack') = Len(stack) - 1

\* the trial that runs below a frame is the one of the frame's option index
RunningTrialIsIndexed ==
    \A k \in 1..(Len(stack) - 1) :
       stack[k + 1].self.solution = TrialBoard(stack[k], stack[k].option_index)

\* a board returned through a frame with a branch group holds the option
\* the frame is at, and no option before it leads to a solution
ReturnedIsLowest ==
    (pc = "solve_ret" /\ IsSome(solve_result) /\ IsSome(stack[Len(stack)].next_group))
       => LET frame == stack[Len(stack)]
              next_group == Unwrap(frame.next_group)
          IN  /\ \A i \in 1..Len(next_group.positions) :
                    Unwrap(solve_result).solution[next_group.positions[i]]
                       = next_group.options[frame.option_index + 1][i]
              /\ \A j \in 0..(frame.option_index - 1) :
                    ~Solvable(puzzle_string, TrialBoard(frame, j))

\* C13: solve tries the options of the branch group in list order from
\* index 0, returns the board of the first option whose trial succeeds, and
\* tries no option after it.
C13_FirstSolution ==
    /\ [](RunningTrialIsIndexed /\ ReturnedIsLowest)
    /\ [][TrialsInOrder]_vars

\* C13 witness: solve returns a board found with an option that is neither
\* the first nor the last of the branch group.
C13_Witness ==
    /\ pc = "solve_ret"
    /\ IsSome(solve_result)
    /\ IsSome(stack[Len(stack)].next_group)
    /\ stack[Len(stack)].option_index > 0
    /\ stack[Len(stack)].option_index + 1 < Len(Unwrap(stack[Len(stack)].next_group).options)

\* the positions the group lines list, whatever they are
RECURSIVE ListedPositions(_)
ListedPositions(lines) ==
    IF lines = <<>> THEN <<>> ELSE lines[1].positions \o ListedPositions(Tail(lines))

\* the listed positions are pairwise different and are the square of side d
FillsSquare(lines, d) ==
    LET listed == ListedPositions(lines)
    IN  /\ d \in 3..9
        /\ \A i, j \in 1..Len(listed) : i # j => listed[i] # listed[j]
        /\ Range(listed) = Cells(d)

\* C14: for a KenKen, get_dimension returns Ok(d) only when the positions
\* listed in the group lines are pairwise different and are exactly the
\* positions of the d x d square, 3 <= d <= 9, and the error when a position
\* is listed twice, is missing or lies outside the square; for a Sudoku it
\* returns Ok(9).
C14_DimensionChecked ==
    pc = "returned"
       => IF arg.game_type = "Sudoku"
          THEN ret = Some(9)
          ELSE /\ IsSome(ret) => FillsSquare(arg.lines, Unwrap(ret))
               /\ (\A d \in 3..9 : ~FillsSquare(arg.lines, d)) => ret = None

\* C15: the raw string of every generated puzzle is loaded by
\* new_from_raw_string, and new_kenken returns a group for every entry of
\* the loaded puzzle_string, so creation of the puzzle does not fail.
C15_GeneratedLoads ==
    pc = "returned"
       => /\ IsSome(ret.file)
          /\ ret.dimension = Some(arg.dimension)
          /\ Len(ret.groups) = Len(Unwrap(ret.file).puzzle_string)
          /\ \A k \in 1..Len(ret.groups) : IsSome(ret.groups[k])

\* the field holds a Latin square over 1..d on the d x d board and 0
\* elsewhere
LatinOnBoard(field, d) ==
    /\ \A p \in FieldIndex : IF p \in Cells(d) THEN field[p] \in 1..d ELSE field[p] = 0
    /\ \A p, q \in Cells(d) : (p # q /\ SameLine(p, q)) => field[p] # field[q]

\* the groups that have their operation are satisfied by the solution
\* digits, by the rules and by the solver's is_valid_option
OperationsFit(p) ==
    \A g \in 1..Len(p.operations) :
       /\ Len(p.results) >= g
       /\ TupleAt(p.solution, p.groups[g])
             \in Candidates(p.dimension, Line(p.results[g], p.operations[g], p.groups[g]))
       /\ is_valid_option(p.operations[g], p.results[g], p.groups[g],
                          TupleAt(p.solution, p.groups[g]))

\* the generated puzzle as group lines
GeneratedLines(p) ==
    [g \in 1..Len(p.groups) |-> Line(p.results[g], p.operations[g], p.groups[g])]

Stable(g, field) == filter_options(g, field.solution, field.block_list) = g.options

\* C17: when get_next_solution_step returns a state, with or without a
\* branch group, filtering any group of the returned list, or the branch
\* group, once more against the returned board and the returned
\* exclusions removes no option.
C17_FixpointAtReturn ==
    (pc = "scan_ret" /\ IsSome(step_result.field))
        => \A g \in ReturnedGroups : Stable(g, Unwrap(step_result.field))

\* the group with index best (from 0) has the least ratio opt_cnt /
\* group_pos of the groups of the pass and is the first with it
FirstMinimal(results, best) ==
    /\ best < Len(results)
    /\ \A k \in 1..Len(results) :
          results[best + 1].opt_cnt * results[k].group_pos
             <= results[k].opt_cnt * results[best + 1].group_pos
    /\ \A k \in 1..best :
          results[best + 1].opt_cnt * results[k].group_pos
             < results[k].opt_cnt * results[best + 1].group_pos

\* C18: when groups with two options or more remain after the last pass,
\* the group taken out of the list and returned as branch group has the
\* least ratio of option count to position count of all remaining groups,
\* and is the first of the list with that ratio, for every option count,
\* counts of 1000 or more per position included.
C18_BranchIsFirstMinimal ==
    pc = "returned" => FirstMinimal(arg, Unwrap(ret))

\* the options of the group, in their order, that put no blocked digit on
\* any position
PassingOptions(g, board, block_list) ==
    SelectSeq(g.options, LAMBDA option : Passes(option, g.positions, board, block_list))

\* a step of the scan acts on exactly the passing options of the group it
\* filters, taken on the board and the exclusions of the scan as they are at
\* this step: none ends the round, one is written to the board, and two or
\* more are the options of the group put back in its place
FilterStepExact ==
    (pc = "scan" /\ index < Len(new_groups) /\ pc' # "panic")
        => LET g == new_groups[index + 1]
               passing == PassingOptions(g, new_field.solution, new_field.block_list)
           IN  CASE Len(passing) = 0 -> pc' = "scan_ret" /\ step_result' = NoResult
                 [] Len(passing) = 1 ->
                       /\ pc' = "scan"
                       /\ new_groups' = RemoveAt(new_groups, index + 1)
                       /\ TupleAt(new_field'.solution, g.positions) = passing[1]
                 [] OTHER ->
                       /\ pc' = "scan"
                       /\ Len(new_groups') = Len(new_groups)
                       /\ new_groups'[index + 1].positions = g.positions
                       /\ new_groups'[index + 1].options = passing

\* C19: get_updated_group returns exactly the options of the group, in
\* their order, that at no position assign a digit excluded at the position
\* or set on the board in the row or in the column of the position; the
\* board is the board of the running round, with the digits of the groups
\* that collapsed earlier in the round.
C19_FilterExact == [][FilterStepExact]_vars

\* C19 witness: in a round that has written digits, the group just filtered
\* and put back has lost a candidate that passes on the board the round
\* began with.
C19_Witness ==
    /\ pc = "scan"
    /\ index >= 1
    /\ index <= Len(new_groups)
    /\ new_field.solution # StepInput.solution
    /\ LET g == new_groups[index]
       IN  /\ g.options = PassingOptions(g, new_field.solution, new_field.block_list)
           /\ \E t \in Candidates(BoardDim(puzzle_string),
                                   Line(g.result, g.operation, g.positions)) :
                 /\ ~Passes(t, g.positions, new_field.solution, new_field.block_list)
                 /\ Passes(t, g.positions, StepInput.solution, new_field.block_list)

\* a scan step that leaves the filtered group with one option writes the
\* option to the board at the positions of the group and nowhere else,
\* takes the group out of the list and goes back to the first group
CollapseStep ==
    (/\ pc = "scan" /\ index < Len(new_groups)
     /\ Len(PassingOptions(new_groups[index + 1], new_field.solution,
                           new_field.block_list)) = 1)
        => LET g == new_groups[index + 1]
               option == PassingOptions(g, new_field.solution, new_field.block_list)[1]
           IN  /\ pc' = "scan"
               /\ \A i \in 1..Len(g.positions) :
                     new_field'.solution[g.positions[i]] = option[i]
               /\ \A p \in FieldIndex \ Range(g.positions) :
                     new_field'.solution[p] = new_field.solution[p]
               /\ new_groups' = RemoveAt(new_groups, index + 1)
               /\ index' = 0

\* the groups already passed in the running pass, and at return all groups
\* handed back, hold only options that fit the digits on the board
FilteredOnBoard ==
    /\ pc = "scan"
          => \A k \in 1..index :
                k <= Len(new_groups)
                   => \A m \in 1..Len(new_groups[k].options) :
                         Passes(new_groups[k].options[m], new_groups[k].positions,
                                new_field.solution, <<>>)
    /\ (pc = "scan_ret" /\ IsSome(step_result.field))
          => \A g \in ReturnedGroups :
                \A m \in 1..Len(g.options) :
                   Passes(g.options[m], g.positions, Unwrap(step_result.field).solution, <<>>)

\* C20: whenever a filtered group has exactly one option, the option is
\* written to the board at the positions of the group, the group is taken
\* out of the list and the scan restarts at the first group; so every group
\* still in the list is filtered again against the board with the new
\* digits before get_next_solution_step returns.
C20_CollapseRestarts == []FilteredOnBoard /\ [][CollapseStep]_vars

\* C20 witness: a round that began with two groups or more and wrote the
\* digits of a group of two positions or more returns a state with a group
\* that lost options in the round.
C20_Witness ==
    /\ pc = "scan_ret"
    /\ IsSome(step_result.field)
    /\ \E g \in Range(StepInput.groups) :
          /\ Len(g.positions) >= 2
          /\ \A i \in 1..Len(g.positions) :
                /\ StepInput.solution[g.positions[i]] = 0
                /\ Unwrap(step_result.field).solution[g.positions[i]] > 0
    /\ \E g \in ReturnedGroups :
          \E h \in Range(StepInput.groups) :
             /\ h.positions = g.positions
             /\ Len(g.options) < Len(h.options)
             /\ \E m \in 1..Len(h.options) :
                   ~Passes(h.options[m], h.positions,
                           Unwrap(step_result.field).solution, <<>>)

\* every recursive call of solve is on a state with fewer groups than the
\* state of its parent, and the calls nested in the first one number at most
\* the groups of the state the first one was called on
DepthBounded ==
    /\ \A k \in 1..(Len(stack) - 1) :
          Len(stack[k + 1].self.groups) < Len(stack[k].self.groups)
    /\ Len(stack) > 0 => Len(stack) - 1 <= Len(stack[1].self.groups)

\* a solve that was called returns (or the program panics)
SolveReturns == (Len(stack) > 0) ~> (pc \in {"done", "panic"})

\* C21: solve terminates, and its recursion depth never exceeds the number
\* of groups of the state it was first called on: every recursive call
\* receives a state whose group list is strictly shorter than its parent's.
C21_SolveTerminates == []DepthBounded /\ SolveReturns

\* C21 witness: a solve nested two deep returns.
C21_Witness ==
    /\ pc = "solve_ret"
    /\ Len(stack) >= 3

\* the groups of the state the round was called on that the round did not
\* hand back, neither in the list nor as branch group
Retired == {h \in Range(StepInput.groups) :
               \A g \in ReturnedGroups : g.positions # h.positions}

\* C22: in every state get_next_solution_step returns, every group of the
\* list and the branch group hold two options or more; the groups left
\* with one option are not in the list and their digits are on the board.
C22_ReturnedGroupsOpen ==
    (pc = "scan_ret" /\ IsSome(step_result.field))
        => /\ \A g \in ReturnedGroups : Len(g.options) >= 2
           /\ \A h \in Retired :
                 \A i \in 1..Len(h.positions) :
                    Unwrap(step_result.field).solution[h.positions[i]] > 0

\* C22 witness: a round returns a branch group and a list of groups after
\* it wrote the digits of a group that came with two options or more.
C22_Witness ==
    /\ pc = "scan_ret"
    /\ IsSome(step_result.field)
    /\ IsSome(step_result.group)
    /\ Len(Unwrap(step_result.field).groups) >= 1
    /\ \E h \in Retired :
          /\ Len(h.options) >= 2
          /\ StepInput.solution[h.positions[1]] = 0

DescribedGroups ==
    [g \in 1..Len(puzzle_string) |->
        Unwrap(new_kenken(Unwrap(this).dimension, puzzle_string[g]))]

\* the board holds one of the initial options of the group
WrittenAtCreation(group) ==
    \E o \in Range(group.options) :
        \A i \in 1..Len(group.positions) :
            Unwrap(this).solution[group.positions[i]] = o[i]

\* the puzzle holds the group with some, at least one, of its initial options
KeptAtCreation(group) ==
    \E k \in 1..Len(Unwrap(this).groups) :
        LET h == Unwrap(this).groups[k]
        IN  /\ h.positions = group.positions
            /\ h.operation = group.operation
            /\ h.result = group.result
            /\ Len(h.options) >= 1
            /\ Range(h.options) \subseteq Range(group.options)

NewLookupEmpty ==
    (pc = "call" /\ pc' = "inserting")
        => \A p \in FieldIndex : get_position_block_list(Unwrap(ret'), p) = {}

\* an insert joins the digits to the lookup of the other positions of the
\* line and leaves every other lookup as it was
InsertFrame ==
    (pc = "inserting" /\ index' = index + 1)
        => LET call == arg[index + 1]
               line == OtherOnLine(call.positions)
           IN  /\ \A q \in line :
                     get_position_block_list(Unwrap(ret'), q)
                        = get_position_block_list(Unwrap(ret), q) \cup call.digits
               /\ \A q \in (FieldIndex \cup DOMAIN Unwrap(ret')) \ line :
                     get_position_block_list(Unwrap(ret'), q)
                        = get_position_block_list(Unwrap(ret), q)

\* C24: insert_position_black_list for a group on a line joins the digits
\* to the lookup of every position of the group's line (the column when
\* the first two positions share a column, else the row of the first
\* position) that is no position of the group; the lookup of every other
\* position, the group's own and those off the line, stays as it was; the
\* lookup of a position never inserted is empty.
C24_InsertFrame == [][NewLookupEmpty]_vars /\ [][InsertFrame]_vars

\* C24 witness: a second insert has met a line that crosses the first: one
\* position holds the digits of both, the group's own positions hold those
\* of the first only
C24_Witness ==
    /\ pc = "inserting"
    /\ index = 2
    /\ arg[1].positions = <<0, 1>>
    /\ arg[2].positions = <<0, 10>>
    /\ arg[1].digits = {1, 2}
    /\ arg[2].digits = {2, 3}
    /\ get_position_block_list(Unwrap(ret), 20) = {2, 3}
    /\ get_position_block_list(Unwrap(ret), 2) = {1, 2}
    /\ get_position_block_list(Unwrap(ret), 0) = {}
    /\ get_position_block_list(Unwrap(ret), 11) = {}

\* all positions in one row or all in one column
LineAligned(positions) ==
    \/ \A i \in 1..Len(positions) : positions[i] \div 10 = positions[1] \div 10
    \/ \A i \in 1..Len(positions) : positions[i] % 10 = positions[1] % 10

DigitCount(option, d) == Cardinality({i \in 1..Len(option) : option[i] = d})

\* every option holds every digit as often as the first option does
SameMultiset(options) ==
    \A k \in 1..Len(options) :
        \A d \in 1..9 : DigitCount(options[k], d) = DigitCount(options[1], d)

\* a group off any line is recorded from its creation on
NonLineRecorded ==
    \A g \in AllGroups : ~LineAligned(g.positions) => g.is_already_in_black_list

\* the scan step on a group left with two options or more: a line group not
\* yet recorded is recorded, and its digits inserted on the rest of its
\* line, exactly when its options are of one digit multiset; every other
\* group leaves the block list and its flag as they are
RecordStep ==
    (pc = "scan" /\ index < Len(new_groups) /\ pc' # "panic")
        => LET g == new_groups[index + 1]
               passing == PassingOptions(g, new_field.solution, new_field.block_list)
           IN  /\ ~LineAligned(g.positions)
                     => new_field'.block_list = new_field.block_list
               /\ Len(passing) >= 2
                     => LET h == new_groups'[index + 1]
                        IN  IF LineAligned(g.positions) /\ ~g.is_already_in_black_list
                            THEN IF SameMultiset(passing)
                                 THEN /\ h.is_already_in_black_list
                                      /\ \A q \in OtherOnLine(g.positions) :
                                            Excluded(new_field'.block_list, q)
                                               = Excluded(new_field.block_list, q)
                                                    \cup Range(passing[1])
                                      /\ \A q \in (FieldIndex \cup DOMAIN new_field'.block_list)
                                                   \ OtherOnLine(g.positions) :
                                            Excluded(new_field'.block_list, q)
                                               = Excluded(new_field.block_list, q)
                                 ELSE /\ ~h.is_already_in_black_list
                                      /\ new_field'.block_list = new_field.block_list
                            ELSE /\ h.is_already_in_black_list = g.is_already_in_black_list
                                 /\ new_field'.block_list = new_field.block_list

\* C25: a group on a line, not yet recorded and left with two candidates or
\* more after filtering, has its digits inserted and its copy marked
\* recorded if and only if all remaining candidates are of one digit
\* multiset; otherwise the block list is unchanged and the copy stays
\* unrecorded.  A group that is not on a line is recorded from creation on
\* and never inserts.
C25_RecordedIffSameDigits == []NonLineRecorded /\ [][RecordStep]_vars

\* C25 witness: in one round a line group of two positions or more has just been
\* recorded and another line group, filtered before it, is left unrecorded
\* with candidates of different digits
C25_Witness ==
    /\ pc = "scan"
    /\ index >= 2
    /\ index <= Len(new_groups)
    /\ LET g == new_groups[index]
       IN  /\ LineAligned(g.positions)
           /\ Len(g.positions) >= 2
           /\ Len(g.options) >= 2
           /\ SameMultiset(g.options)
           /\ g.is_already_in_black_list
           /\ \E h \in Range(StepInput.groups) :
                 h.positions = g.positions /\ ~h.is_already_in_black_list
    /\ \E k \in 1..(index - 1) :
          /\ LineAligned(new_groups[k].positions)
          /\ Len(new_groups[k].options) >= 2
          /\ ~SameMultiset(new_groups[k].options)
          /\ ~new_groups[k].is_already_in_black_list

\* the board with the tuple t on the positions of the line
WithTuple(board, line, t) ==
    [p \in FieldIndex |->
        IF \E i \in 1..Len(line.positions) : line.positions[i] = p
        THEN t[CHOOSE i \in 1..Len(line.positions) : line.positions[i] = p]
        ELSE board[p]]

\* the solutions of the puzzle that agree with the board on every digit set
RECURSIVE Completions(_, _, _)
Completions(lines, rest, board) ==
    IF rest = <<>>
    THEN IF IsSolution(lines, board) THEN {board} ELSE {}
    ELSE LET line == rest[1]
             d == BoardDim(lines)
             fitting == {t \in Candidates(d, line) :
                            \A i \in 1..Len(line.positions) :
                               /\ board[line.positions[i]] \in {0, t[i]}
                               /\ \A q \in Cells(d) \ Range(line.positions) :
                                     SameLine(q, line.positions[i]) => board[q] # t[i]}
         IN  UNION {Completions(lines, Tail(rest), WithTuple(board, line, t)) : t \in fitting}

\* the boards with their exclusions, each in the states in which it comes
\* to be: the puzzle when created, the state of the running round at every
\* step (at its first step the state solve was called on or the state
\* set_option_for_group made for the trial), the state a round returns and
\* the state solve returns; the frames of solve and the client hold copies
\* of these
FieldsHeld ==
    LET some(o) == IF IsSome(o)
                   THEN {[solution |-> Unwrap(o).solution,
                          block_list |-> Unwrap(o).block_list]}
                   ELSE {}
    IN  CASE pc = "created" -> some(this)
          [] pc = "scan" -> some(Some(new_field))
          [] pc = "scan_ret" -> some(step_result.field)
          [] pc \in {"solve_ret", "done"} -> some(solve_result)
          [] OTHER -> {}

\* no solution that agrees with the board has an excluded digit at its position
SoundExclusions(f) ==
    \A b \in Completions(puzzle_string, puzzle_string, f.solution) :
        \A p \in DOMAIN f.block_list : b[p] \notin f.block_list[p]

\* C26: in every state, for every board made with its exclusions (the
\* puzzle, the running round, the states below a branch trial among them,
\* and the values returned),
\* no solution of the puzzle that agrees with the board has a digit at a
\* position where the digit is excluded; this holds in the states below a
\* branch trial for the exclusions made above it.
C26_ExclusionsSound == \A f \in FieldsHeld : SoundExclusions(f)

\* C26 witness: below a branch trial, the board of the trial has a solution
\* and the exclusions made before the trial forbid digits at an open
\* position of the grid
C26_Witness ==
    /\ Len(stack) >= 2
    /\ LET f == stack[Len(stack)].self
       IN  /\ Completions(puzzle_string, puzzle_string, f.solution) # {}
           /\ \E p \in Cells(BoardDim(puzzle_string)) \cap DOMAIN f.block_list :
                 /\ f.solution[p] = 0
                 /\ f.block_list[p] # {}
                 /\ f.block_list[p] = Excluded(stack[Len(stack) - 1].self.block_list, p)
                                        \cup Excluded(Unwrap(stack[Len(stack) - 1].updated_field).block_list, p)

\* the grid positions without digit on the board
OpenPositions(board) == {p \in Cells(BoardDim(puzzle_string)) : board[p] = 0}

PositionsOf(groups) == UNION {Range(g.positions) : g \in groups}

\* the round was called on a state whose open positions are exactly the
\* positions of its groups
InputOpenIsGroups ==
    OpenPositions(StepInput.solution) = PositionsOf(Range(StepInput.groups))

\* C27: when get_next_solution_step, called on a state whose open grid
\* positions are exactly the positions of its groups, returns a state with
\* a branch group, a grid position is open on the returned board exactly
\* when it is a position of a group of the returned list or of the branch
\* group; no group of the list has a digit on one of its positions.
C27_OpenIffInReturnedGroup ==
    (/\ pc = "scan_ret"
     /\ IsSome(step_result.field)
     /\ IsSome(step_result.group)
     /\ InputOpenIsGroups)
        => OpenPositions(Unwrap(step_result.field).solution) = PositionsOf(ReturnedGroups)

\* C27 witness: a round of solve has written digits and returned a state
\* with a branch group
C27_Witness ==
    /\ pc = "scan_ret"
    /\ caller = "solve"
    /\ Len(stack) >= 1
    /\ IsSome(step_result.field)
    /\ IsSome(step_result.group)
    /\ InputOpenIsGroups
    /\ OpenPositions(Unwrap(step_result.field).solution)
          # OpenPositions(StepInput.solution)

\* the description has a dimension and every group has a candidate
Creatable(lines) ==
    /\ IsSome(get_dimension("KenKen", lines))
    /\ \A g \in 1..Len(lines) :
          Candidates(Unwrap(get_dimension("KenKen", lines)), lines[g]) # {}

\* C28: new_from_puzzle_file returns Ok for every KenKen description in
\* which each group has a candidate, whatever the round run during creation
\* returns: a state with a branch group, a state with every group assigned
\* and no branch group, or a contradiction.  Creation neither panics nor
\* returns an error for such a description.
C28_CreationReturnsOk ==
    Creatable(puzzle_string)
       => /\ ~(pc = "panic" /\ caller = "init")
          /\ pc # "create_err"

\* C29: when get_next_solution_step ends its scan with groups left, ind_min
\* is an index of the group list, so that the removal of the branch group
\* stays in bounds; also after restarts that shortened the list and when
\* every group left has 1000 options or more per position.
C29_BranchIndexValid ==
    (pc = "round" /\ index >= Len(new_groups) /\ Len(new_groups) > 0)
        => ind_min < Len(new_groups)

\* C30: insert_position_black_list is reached only for a group of two
\* positions or more, so that its read of positions[1] is in bounds: a
\* group of one position is on a line and created unrecorded, but has one
\* candidate for every operation, and the check of the candidates runs
\* only for a group left with more than one candidate.
C30_InsertNeedsTwoPositions ==
    /\ pc # "panic"
    /\ (pc \in {"returned", "updated"} /\ IsSome(ret)
          /\ Len(Unwrap(ret).positions) = 1)
          => /\ Len(Unwrap(ret).options) = 1
             /\ Unwrap(ret).is_one_dimensional
             /\ ~Unwrap(ret).is_already_in_black_list
    /\ pc = "updated"
          => /\ Unwrap(new_field).block_list # NewBlockList
                   => /\ Len(new_groups[1].positions) >= 2
                      /\ Len(new_groups[1].options) >= 2
             /\ Len(new_groups[1].options) <= 1
                   => new_groups[1].is_already_in_black_list
                         = Unwrap(ret).is_already_in_black_list

\* C30 witness: a group of one position made with "+" was filtered with its
\* one candidate left, is still unrecorded and nothing was inserted
C30_Witness ==
    /\ pc = "updated"
    /\ Len(new_groups[1].positions) = 1
    /\ new_groups[1].operation = "+"
    /\ Len(new_groups[1].options) = 1
    /\ ~new_groups[1].is_already_in_black_list
    /\ Unwrap(new_field).block_list = NewBlockList

====
